---- MODULE Spec2Model ----
(***************************************************************************)
(* Model of the diff engine of DiffLens (src/src/configService.ts):        *)
(* generatePreciseUnifiedDiff with its hunk assembler                      *)
(* generateHunksWithContext, generateUnifiedDiff, and the per-file loop of *)
(* generateNativeGitDiff.                                                  *)
(*                                                                         *)
(* Text is modelled as a sequence of one-character strings, so that        *)
(* String.split, the line tokenizer of jsdiff and the rendering are real   *)
(* computations.  An output text is kept as its sequence of lines, each    *)
(* line being a sequence of characters.                                    *)
(***************************************************************************)
EXTENDS Integers, Sequences, FiniteSets, TLC

\* ------------------------------------------------------------------ bounds
MaxLines == 3
MaxContext == 2

\* ------------------------------------------------------------- text basics
NL == "\n"

\* The texts a line can have; lines are never blank in this model, so that
\* String.trim on a rendered diff removes the final line terminator only.
LineTexts == {<<"a">>, <<"b">>, <<"c">>}

Max(a, b) == IF a > b THEN a ELSE b

Min(a, b) == IF a < b THEN a ELSE b

RECURSIVE Flatten(_)
\* Array.join('') of a sequence of strings.
Flatten(ss) == IF ss = <<>> THEN <<>> ELSE Head(ss) \o Flatten(Tail(ss))

RECURSIVE Split(_)
\* String.split('\n'): the pieces between the separators; never empty, the
\* empty string gives one empty piece and a final separator a final empty one.
Split(s) ==
    IF \A k \in 1..Len(s) : s[k] # NL
    THEN <<s>>
    ELSE LET p == CHOOSE k \in 1..Len(s) :
                      s[k] = NL /\ \A m \in 1..(k - 1) : s[m] # NL
         IN  <<SubSeq(s, 1, p - 1)>> \o Split(SubSeq(s, p + 1, Len(s)))

\* The ternary of generatePreciseUnifiedDiff: content ? content.split('\n') : []
SplitLines(content) == IF content = <<>> THEN <<>> ELSE Split(content)

RECURSIVE Tokenize(_)
\* The line tokens of jsdiff.diffLines (newlineIsToken: false): every line
\* keeps its terminator, and there is no empty last token.
Tokenize(s) ==
    IF s = <<>> THEN <<>>
    ELSE IF \A k \in 1..Len(s) : s[k] # NL
    THEN <<s>>
    ELSE LET p == CHOOSE k \in 1..Len(s) :
                      s[k] = NL /\ \A m \in 1..(k - 1) : s[m] # NL
         IN  <<SubSeq(s, 1, p)>> \o Tokenize(SubSeq(s, p + 1, Len(s)))

\* ------------------------------------------------------- the input domain
RECURSIVE LineSeqs(_)
LineSeqs(n) ==
    IF n = 0 THEN {<<>>}
    ELSE LineSeqs(n - 1) \cup
         {<<t>> \o ls : t \in LineTexts, ls \in {x \in LineSeqs(n - 1) : Len(x) = n - 1}}

RECURSIVE JoinNL(_)
\* Array.join('\n')
JoinNL(ls) ==
    IF ls = <<>> THEN <<>>
    ELSE IF Len(ls) = 1 THEN Head(ls)
    ELSE Head(ls) \o <<NL>> \o JoinNL(Tail(ls))

\* File contents: up to MaxLines lines, with or without a final newline.
ContentsOf(lss) ==
    {JoinNL(ls) : ls \in lss} \cup {JoinNL(ls) \o <<NL>> : ls \in lss \ {<<>>}}

Contents == ContentsOf(LineSeqs(MaxLines))

\* The line texts in the order "a", "b", "c".
TextRank(t) == IF t = <<"a">> THEN 1 ELSE IF t = <<"b">> THEN 2 ELSE 3

\* Old contents use the line texts in the order a, b, c: a text appears only
\* after every text before it has appeared.  Every other pair of contents is
\* one of these pairs with the texts renamed.
FirstUseOrdered(ls) ==
    \A k \in 1..Len(ls) :
        \A r \in 1..(TextRank(ls[k]) - 1) :
            \E m \in 1..(k - 1) : TextRank(ls[m]) = r

OldContents == ContentsOf({ls \in LineSeqs(MaxLines) : FirstUseOrdered(ls)})

\* ------------------------------------------------- jsdiff.diffLines (model)
RECURSIVE EditScripts(_, _, _, _)
\* Every way to turn the token sequence A into B with the steps keep ("="),
\* remove ("-") and add ("+") that makes exactly `cost` removals and additions
\* and, like jsdiff, reports the removals of a change before its additions
\* (last: the step before).
EditScripts(A, B, cost, last) ==
    IF A = <<>> /\ B = <<>> THEN (IF cost = 0 THEN {<<>>} ELSE {})
    ELSE (IF A # <<>> /\ B # <<>> /\ Head(A) = Head(B)
          THEN {<<"=">> \o s : s \in EditScripts(Tail(A), Tail(B), cost, "=")}
          ELSE {})
         \cup (IF A # <<>> /\ cost > 0 /\ last # "+"
               THEN {<<"-">> \o s : s \in EditScripts(Tail(A), B, cost - 1, "-")}
               ELSE {})
         \cup (IF B # <<>> /\ cost > 0
               THEN {<<"+">> \o s : s \in EditScripts(A, Tail(B), cost - 1, "+")}
               ELSE {})

RECURSIVE ShortestFrom(_, _, _)
\* The edit scripts with the least number of removals and additions, that
\* number being searched upwards from `cost`.
ShortestFrom(A, B, cost) ==
    LET ss == EditScripts(A, B, cost, "=")
    IN  IF ss # {} THEN ss ELSE ShortestFrom(A, B, cost + 1)

\* The library computes a shortest edit script (Myers); which of several
\* shortest ones it returns is left open here.
ShortestScripts(A, B) == ShortestFrom(A, B, 0)

RECURSIVE BuildParts(_, _, _, _)
\* The change objects of the library: maximal runs of one kind, each with the
\* concatenated text of its tokens.
BuildParts(ops, A, B, acc) ==
    IF ops = <<>> THEN acc
    ELSE LET op == Head(ops)
             tok == IF op = "+" THEN Head(B) ELSE Head(A)
             restA == IF op = "+" THEN A ELSE Tail(A)
             restB == IF op = "-" THEN B ELSE Tail(B)
             n == Len(acc)
             same == /\ n > 0
                     /\ acc[n].added = (op = "+")
                     /\ acc[n].removed = (op = "-")
             acc2 == IF same
                     THEN [acc EXCEPT ![n].value = @ \o tok]
                     ELSE Append(acc, [value |-> tok,
                                       added |-> (op = "+"),
                                       removed |-> (op = "-")])
         IN  BuildParts(Tail(ops), restA, restB, acc2)

\* jsdiff.diffLines(oldContent, newContent, {ignoreWhitespace: false,
\* newlineIsToken: false}): the possible results.
diffLines(oldStr, newStr) ==
    LET A == Tokenize(oldStr)
        B == Tokenize(newStr)
    IN  {BuildParts(s, A, B, <<>>) : s \in ShortestScripts(A, B)}

\* ------------------------------------------------ generateHunksWithContext
NoHunk == [open |-> FALSE]

\* PartLines without the removal of the final empty piece.
PartLinesKeepEmptyLast(part) == Split(part.value)

\* const lines = part.value.split('\n'); a final empty piece is popped.
PartLines(part) ==
    LET ls == Split(part.value)
    IN  IF ls[Len(ls)] = <<>> THEN SubSeq(ls, 1, Len(ls) - 1) ELSE ls

\* lines.push(prefix + line) for every line of a changed part
Prefixed(prefix, ls) == [k \in 1..Len(ls) |-> <<prefix>> \o ls[k]]

\* "Add context before": the loop over j in [contextStart, contextEnd), with
\* the zero-based j of the code.
ContextBefore(oldLines, oldLineNum, contextLines) ==
    LET contextStart == Max(0, oldLineNum - contextLines - 1)
        contextEnd == oldLineNum - 1
        js == {j \in contextStart..(contextEnd - 1) : j < Len(oldLines)}
        n == Cardinality(js)
    IN  [k \in 1..n |-> <<" ">> \o oldLines[contextStart + k]]

\* ContextAfter with contextEnd not limited by contextLines.
ContextAfterToEndOfFile(newLines, newLineNum, contextLines) ==
    LET contextStart == newLineNum
        contextEnd == Len(newLines)
        js == {j \in (contextStart - 1)..(contextEnd - 2) : j < Len(newLines)}
        n == Cardinality(js)
    IN  [k \in 1..n |-> <<" ">> \o newLines[contextStart - 1 + k]]

\* "Add context after and close hunk": the loop over j in
\* [contextStart - 1, contextEnd - 1).
ContextAfter(newLines, newLineNum, contextLines) ==
    LET contextStart == newLineNum
        contextEnd == Min(Len(newLines), newLineNum + contextLines)
        js == {j \in (contextStart - 1)..(contextEnd - 2) : j < Len(newLines)}
        n == Cardinality(js)
    IN  [k \in 1..n |-> <<" ">> \o newLines[contextStart - 1 + k]]

\* OpenHunk with the context-before lines pushed but not counted.
OpenHunkContextUncounted(oldLines, oldLineNum, newLineNum, contextLines) ==
    [open |-> TRUE,
     oldStart |-> Max(1, oldLineNum - contextLines),
     newStart |-> Max(1, newLineNum - contextLines),
     oldLines |-> 0,
     newLines |-> 0,
     lines |-> ContextBefore(oldLines, oldLineNum, contextLines)]

\* The hunk opened at a changed part when none is open.
OpenHunk(oldLines, oldLineNum, newLineNum, contextLines) ==
    LET ctx == ContextBefore(oldLines, oldLineNum, contextLines)
    IN  [open |-> TRUE,
         oldStart |-> Max(1, oldLineNum - contextLines),
         newStart |-> Max(1, newLineNum - contextLines),
         oldLines |-> Len(ctx),
         newLines |-> Len(ctx),
         lines |-> ctx]

\* One iteration of the loop over diffResult; st holds the locals hunks,
\* currentHunk, oldLineNum and newLineNum.
HunkStep(st, part, oldLines, newLines, contextLines) ==
    LET lines == PartLines(part)
    IN  IF part.added \/ part.removed
        THEN LET h0 == IF st.currentHunk.open
                       THEN st.currentHunk
                       ELSE OpenHunk(oldLines, st.oldLineNum, st.newLineNum, contextLines)
                 h1 == IF part.removed
                       THEN [h0 EXCEPT !.lines = @ \o Prefixed("-", lines),
                                       !.oldLines = @ + Len(lines)]
                       ELSE h0
                 h2 == IF part.added
                       THEN [h1 EXCEPT !.lines = @ \o Prefixed("+", lines),
                                       !.newLines = @ + Len(lines)]
                       ELSE h1
             IN  [st EXCEPT !.currentHunk = h2,
                            !.oldLineNum = IF part.removed THEN @ + Len(lines) ELSE @,
                            !.newLineNum = IF part.added THEN @ + Len(lines) ELSE @]
        ELSE LET closed ==
                     IF st.currentHunk.open
                     THEN LET ctx == ContextAfter(newLines, st.newLineNum, contextLines)
                          IN  [st EXCEPT
                                 !.hunks = Append(@,
                                     [st.currentHunk EXCEPT
                                        !.lines = @ \o ctx,
                                        !.oldLines = @ + Len(ctx),
                                        !.newLines = @ + Len(ctx)]),
                                 !.currentHunk = NoHunk]
                     ELSE st
             IN  [closed EXCEPT !.oldLineNum = @ + Len(lines),
                                !.newLineNum = @ + Len(lines)]

RECURSIVE HunkLoop(_, _, _, _, _)
HunkLoop(st, parts, oldLines, newLines, contextLines) ==
    IF parts = <<>> THEN st
    ELSE HunkLoop(HunkStep(st, Head(parts), oldLines, newLines, contextLines),
                  Tail(parts), oldLines, newLines, contextLines)

\* The locals of generateHunksWithContext when it returns, the final hunk
\* closed.
HunkWalk(parts, oldLines, newLines, contextLines) ==
    LET st == HunkLoop([hunks |-> <<>>, currentHunk |-> NoHunk,
                        oldLineNum |-> 1, newLineNum |-> 1],
                       parts, oldLines, newLines, contextLines)
    IN  IF st.currentHunk.open
        THEN [st EXCEPT !.hunks = Append(@, st.currentHunk), !.currentHunk = NoHunk]
        ELSE st

generateHunksWithContext(parts, oldLines, newLines, contextLines) ==
    HunkWalk(parts, oldLines, newLines, contextLines).hunks

\* --------------------------------------------------------------- rendering
IsSpace(c) == c \in {" ", NL}

RECURSIVE TrimStart(_)
TrimStart(s) == IF s # <<>> /\ IsSpace(Head(s)) THEN TrimStart(Tail(s)) ELSE s

RECURSIVE TrimEnd(_)
TrimEnd(s) ==
    IF s # <<>> /\ IsSpace(s[Len(s)]) THEN TrimEnd(SubSeq(s, 1, Len(s) - 1)) ELSE s

\* String.trim
Trim(s) == TrimEnd(TrimStart(s))

\* `@@ -${oldStart},${oldLines} +${newStart},${newLines} @@\n`
HunkHeader(h) ==
    <<"@@ -", ToString(h.oldStart), ",", ToString(h.oldLines),
      " +", ToString(h.newStart), ",", ToString(h.newLines), " @@", NL>>

RECURSIVE RenderPreciseHunks(_)
\* The loop of generatePreciseUnifiedDiff over the hunks.
RenderPreciseHunks(hs) ==
    IF hs = <<>> THEN <<>>
    ELSE HunkHeader(Head(hs)) \o JoinNL(Head(hs).lines) \o <<NL>>
         \o RenderPreciseHunks(Tail(hs))

\* The four header lines of a modified file.
ModifiedHeader(oldPath, newPath) ==
    <<"diff --git a/">> \o oldPath \o <<" b/">> \o newPath \o <<NL>>
    \o <<"index 0000000..0000000 100644", NL>>
    \o <<"--- a/">> \o oldPath \o <<NL>>
    \o <<"+++ b/">> \o newPath \o <<NL>>

\* A variant that takes any edit script for a change.
hasChangesWheneverParts(parts) == parts # <<>>

\* diffResult.some(part => part.added || part.removed)
hasChanges(parts) == \E k \in 1..Len(parts) : parts[k].added \/ parts[k].removed

\* generatePreciseUnifiedDiff, for the result parts of jsdiff.diffLines: the
\* returned text and the locals of the hunk assembler (oldLineNum 0: the
\* assembler was not called).
PreciseUnifiedDiff(oldPath, newPath, oldStr, newStr, ctxLines, parts) ==
    IF (oldStr = <<>> /\ newStr = <<>>) \/ parts = <<>> \/ ~hasChanges(parts)
    THEN [text |-> <<>>, hunks |-> <<>>, oldLineNum |-> 0, newLineNum |-> 0]
    ELSE LET w == HunkWalk(parts, SplitLines(oldStr), SplitLines(newStr), ctxLines)
         IN  [text |-> Trim(ModifiedHeader(oldPath, newPath) \o RenderPreciseHunks(w.hunks)),
              hunks |-> w.hunks,
              oldLineNum |-> w.oldLineNum,
              newLineNum |-> w.newLineNum]

\* ------------------------------------------- jsdiff.structuredPatch (model)
\* current.value.replace(/\n$/, '').split('\n') of the library; the closing
\* entry it appends to the parts has no lines.
PatchLines(part) ==
    IF part.sentinel THEN <<>>
    ELSE LET v == part.value
         IN  Split(IF v # <<>> /\ v[Len(v)] = NL THEN SubSeq(v, 1, Len(v) - 1) ELSE v)

\* The last n elements of a sequence: Array.slice(-n) for n > 0.
LastN(ls, n) == SubSeq(ls, Max(1, Len(ls) - n + 1), Len(ls))

NoNewlineMarker == <<"\\ No newline at end of file">>

\* One iteration i (counted from 1) of the library's loop over the parts and
\* the closing entry; st holds hunks, oldRangeStart, newRangeStart, curRange,
\* oldLine and newLine.
PatchStep(st, diff, i, oldStr, newStr, context) ==
    LET current == diff[i]
        lines == PatchLines(current)
    IN  IF ~current.sentinel /\ (current.added \/ current.removed)
        THEN LET ctx == IF st.oldRangeStart = 0 /\ i > 1 /\ context > 0
                        THEN Prefixed(" ", LastN(PatchLines(diff[i - 1]), context))
                        ELSE <<>>
                 s1 == IF st.oldRangeStart = 0
                       THEN [st EXCEPT !.oldRangeStart = st.oldLine - Len(ctx),
                                       !.newRangeStart = st.newLine - Len(ctx),
                                       !.curRange = ctx]
                       ELSE st
             IN  [s1 EXCEPT
                    !.curRange = @ \o Prefixed(IF current.added THEN "+" ELSE "-", lines),
                    !.newLine = IF current.added THEN @ + Len(lines) ELSE @,
                    !.oldLine = IF current.added THEN @ ELSE @ + Len(lines)]
        ELSE LET s1 ==
                   IF st.oldRangeStart = 0 THEN st
                   ELSE IF Len(lines) <= context * 2 /\ i < Len(diff) - 1
                   THEN [st EXCEPT !.curRange = @ \o Prefixed(" ", lines)]
                   ELSE LET contextSize == Min(Len(lines), context)
                            range == st.curRange
                                     \o Prefixed(" ", SubSeq(lines, 1, contextSize))
                            oldCount == st.oldLine - st.oldRangeStart + contextSize
                            newCount == st.newLine - st.newRangeStart + contextSize
                            atEOF == i >= Len(diff) - 1 /\ Len(lines) <= context
                            oldEOFNewline == oldStr # <<>> /\ oldStr[Len(oldStr)] = NL
                            newEOFNewline == newStr # <<>> /\ newStr[Len(newStr)] = NL
                            noNlBeforeAdds == Len(lines) = 0 /\ Len(range) > oldCount
                            r1 == IF atEOF /\ ~oldEOFNewline /\ noNlBeforeAdds
                                     /\ oldStr # <<>>
                                  THEN SubSeq(range, 1, oldCount) \o <<NoNewlineMarker>>
                                       \o SubSeq(range, oldCount + 1, Len(range))
                                  ELSE range
                            r2 == IF atEOF /\ ((~oldEOFNewline /\ ~noNlBeforeAdds)
                                               \/ ~newEOFNewline)
                                  THEN Append(r1, NoNewlineMarker)
                                  ELSE r1
                        IN  [st EXCEPT
                               !.hunks = Append(@, [oldStart |-> st.oldRangeStart,
                                                    oldLines |-> oldCount,
                                                    newStart |-> st.newRangeStart,
                                                    newLines |-> newCount,
                                                    lines |-> r2]),
                               !.oldRangeStart = 0,
                               !.newRangeStart = 0,
                               !.curRange = <<>>]
             IN  [s1 EXCEPT !.oldLine = @ + Len(lines), !.newLine = @ + Len(lines)]

RECURSIVE PatchLoop(_, _, _, _, _, _)
PatchLoop(st, diff, i, oldStr, newStr, context) ==
    IF i > Len(diff) THEN st
    ELSE PatchLoop(PatchStep(st, diff, i, oldStr, newStr, context),
                   diff, i + 1, oldStr, newStr, context)

\* The hunks of jsdiff.structuredPatch(oldPath, newPath, oldStr, newStr, ...,
\* {context}) when its line diff returns `parts`.
structuredPatch(oldStr, newStr, context, parts) ==
    LET diff == [k \in 1..(Len(parts) + 1) |->
                    IF k <= Len(parts)
                    THEN [value |-> parts[k].value, added |-> parts[k].added,
                          removed |-> parts[k].removed, sentinel |-> FALSE]
                    ELSE [value |-> <<>>, added |-> FALSE, removed |-> FALSE,
                          sentinel |-> TRUE]]
    IN  PatchLoop([hunks |-> <<>>, oldRangeStart |-> 0, newRangeStart |-> 0,
                   curRange |-> <<>>, oldLine |-> 1, newLine |-> 1],
                  diff, 1, oldStr, newStr, context).hunks

\* ------------------------------------------------------ generateUnifiedDiff
RECURSIVE TrimEndNewlines(_)
\* result.replace(/\n+$/, '')
TrimEndNewlines(s) ==
    IF s # <<>> /\ s[Len(s)] = NL THEN TrimEndNewlines(SubSeq(s, 1, Len(s) - 1)) ELSE s

RECURSIVE RenderLines(_)
\* for (const line of hunk.lines) result += line + '\n'
RenderLines(ls) ==
    IF ls = <<>> THEN <<>> ELSE Head(ls) \o <<NL>> \o RenderLines(Tail(ls))

RECURSIVE RenderHunks(_)
\* The loop of generateUnifiedDiff over diff.hunks.
RenderHunks(hs) ==
    IF hs = <<>> THEN <<>>
    ELSE HunkHeader(Head(hs)) \o RenderLines(Head(hs).lines) \o RenderHunks(Tail(hs))

\* UnifiedHeader with the header of a modified file for every file state.
UnifiedHeaderOfModified(oldPath, newPath, isNewFile, isDeletedFile) ==
    ModifiedHeader(oldPath, newPath)

\* The header lines of generateUnifiedDiff for the three file states.
UnifiedHeader(oldPath, newPath, isNewFile, isDeletedFile) ==
    <<"diff --git a/">> \o oldPath \o <<" b/">> \o newPath \o <<NL>>
    \o (IF isNewFile
        THEN <<"new file mode 100644", NL, "index 0000000..0000000", NL>>
        ELSE IF isDeletedFile
        THEN <<"deleted file mode 100644", NL, "index 0000000..0000000", NL>>
        ELSE <<"index 0000000..0000000 100644", NL>>)
    \o (IF isNewFile
        THEN <<"--- /dev/null", NL>> \o <<"+++ b/">> \o newPath \o <<NL>>
        ELSE IF isDeletedFile
        THEN <<"--- a/">> \o oldPath \o <<NL>> \o <<"+++ /dev/null", NL>>
        ELSE <<"--- a/">> \o oldPath \o <<NL>> \o <<"+++ b/">> \o newPath \o <<NL>>)

\* UnifiedDiff without its two early returns of the empty string.
UnifiedDiffAlwaysRendered(oldPath, newPath, oldStr, newStr, ctxLines, parts) ==
    LET hs == structuredPatch(oldStr, newStr, ctxLines, parts)
    IN  [text |-> TrimEndNewlines(
                      UnifiedHeader(oldPath, newPath,
                                    oldStr = <<>> /\ newStr # <<>>,
                                    oldStr # <<>> /\ newStr = <<>>)
                      \o RenderHunks(hs)),
         hunks |-> hs]

\* generateUnifiedDiff, for the parts the line diff inside
\* jsdiff.structuredPatch returns: the returned text and the hunks.
UnifiedDiff(oldPath, newPath, oldStr, newStr, ctxLines, parts) ==
    IF oldStr = <<>> /\ newStr = <<>>
    THEN [text |-> <<>>, hunks |-> <<>>]
    ELSE LET isNewFile == oldStr = <<>> /\ newStr # <<>>
             isDeletedFile == oldStr # <<>> /\ newStr = <<>>
             hs == structuredPatch(oldStr, newStr, ctxLines, parts)
         IN  IF hs = <<>>
             THEN [text |-> <<>>, hunks |-> <<>>]
             ELSE [text |-> TrimEndNewlines(
                                UnifiedHeader(oldPath, newPath, isNewFile, isDeletedFile)
                                \o RenderHunks(hs)),
                   hunks |-> hs]

\* ------------------------------------------------ parseFileExtensionsFilter
StartsWith(s, prefix) ==
    Len(prefix) <= Len(s) /\ SubSeq(s, 1, Len(prefix)) = prefix

EndsWith(s, suffix) ==
    Len(suffix) <= Len(s) /\ SubSeq(s, Len(s) - Len(suffix) + 1, Len(s)) = suffix

\* String.includes
Includes(s, sub) ==
    \E k \in 1..(Len(s) - Len(sub) + 1) : SubSeq(s, k, k + Len(sub) - 1) = sub

\* String.replace(sub, ''): the first occurrence of sub is removed.
RemoveFirst(s, sub) ==
    IF ~Includes(s, sub) THEN s
    ELSE LET k == CHOOSE i \in 1..(Len(s) - Len(sub) + 1) :
                      /\ SubSeq(s, i, i + Len(sub) - 1) = sub
                      /\ \A j \in 1..(i - 1) : SubSeq(s, j, j + Len(sub) - 1) # sub
         IN  SubSeq(s, 1, k - 1) \o SubSeq(s, k + Len(sub), Len(s))

IsSeparator(c) == c \in {",", ";", " ", NL}

RECURSIVE SplitExtensions(_, _)
\* fileExtensions.split(/[,;\s]+/).map(trim).filter(ext => ext): the maximal
\* runs of characters that are no separators (cur: the run being read).
SplitExtensions(s, cur) ==
    IF s = <<>> THEN (IF cur = <<>> THEN <<>> ELSE <<cur>>)
    ELSE IF IsSeparator(Head(s))
    THEN (IF cur = <<>> THEN <<>> ELSE <<cur>>) \o SplitExtensions(Tail(s), <<>>)
    ELSE SplitExtensions(Tail(s), Append(cur, Head(s)))

\* ExtensionPatterns without the recursive pattern of a simple token.
ExtensionPatternsDirectOnly(ext) ==
    IF Includes(ext, <<"*", "*">>) \/ Includes(ext, <<"/">>)
    THEN <<ext>>
    ELSE IF StartsWith(ext, <<"*">>) THEN <<ext>>
    ELSE IF StartsWith(ext, <<".">>) THEN <<<<"*">> \o ext>>
    ELSE <<<<"*", ".">> \o ext>>

\* The patterns pushed for one extension token.
ExtensionPatterns(ext) ==
    IF Includes(ext, <<"*", "*">>) \/ Includes(ext, <<"/">>)
    THEN <<ext>>
    ELSE LET basePattern == IF StartsWith(ext, <<"*">>) THEN ext
                            ELSE IF StartsWith(ext, <<".">>) THEN <<"*">> \o ext
                            ELSE <<"*", ".">> \o ext
         IN  <<basePattern, <<"*", "*", "/">> \o basePattern>>

parseFileExtensionsFilter(fileExts) ==
    IF fileExts = <<>> \/ Trim(fileExts) = <<>> THEN <<>>
    ELSE LET extensions == SplitExtensions(fileExts, <<>>)
         IN  Flatten([k \in 1..Len(extensions) |-> ExtensionPatterns(extensions[k])])

\* The callback of pathspecs.some in generateNativeGitDiff.
MatchesPattern(rel, pattern) ==
    IF StartsWith(pattern, <<"*", "*", "/">>)
    THEN EndsWith(rel, RemoveFirst(RemoveFirst(pattern, <<"*", "*", "/">>), <<"*">>))
    ELSE IF StartsWith(pattern, <<"*">>)
    THEN EndsWith(rel, RemoveFirst(pattern, <<"*">>))
    ELSE EndsWith(rel, pattern)

\* "Filter by file extension if needed"
FilterByExtension(chs, fileExts) ==
    IF fileExts = <<>> THEN chs
    ELSE LET pathspecs == parseFileExtensionsFilter(fileExts)
         IN  SelectSeq(chs, LAMBDA change :
                 \E k \in 1..Len(pathspecs) : MatchesPattern(change.path, pathspecs[k]))

IsDeletedStatus(status) == status \in {"DELETED", "INDEX_DELETED"}

IsAddedStatus(status) == status \in {"INDEX_ADDED", "ADDED_BY_US"}

IsModifiedStatus(status) == status \in {"MODIFIED", "INDEX_MODIFIED"}

\* FilterDeletes that drops nothing.
FilterDeletesKeepsAll(chs, exclude) == chs

\* "Exclude deleted files if requested"
FilterDeletes(chs, exclude) ==
    IF exclude THEN SelectSeq(chs, LAMBDA change : ~IsDeletedStatus(change.status))
    ELSE chs

\* ---------------------------------------- generateNativeGitDiff, one file
\* The addition diff of a file with an added status whose content was read.
AdditionDiff(oldPath, newPath, content) ==
    LET lines == Split(content)
        header == <<"diff --git a/">> \o oldPath \o <<" b/">> \o newPath \o <<NL>>
                  \o <<"new file mode 100644", NL, "index 0000000..0000000", NL,
                       "--- /dev/null", NL>>
                  \o <<"+++ b/">> \o newPath \o <<NL>>
        body == IF Trim(content) # <<>>
                THEN <<"@@ -0,0 +1,", ToString(Len(lines)), " @@", NL>>
                     \o RenderLines(Prefixed("+", lines))
                ELSE <<"@@ -0,0 +1 @@", NL, "+", NL>>
    IN  Trim(header \o body)

RECURSIVE JoinBlankLastFirst(_)
\* JoinBlank with the diffs in the reverse order.
JoinBlankLastFirst(ds) ==
    IF ds = <<>> THEN <<>>
    ELSE IF Len(ds) = 1 THEN Head(ds)
    ELSE JoinBlankLastFirst(Tail(ds)) \o <<NL, NL>> \o Head(ds)

RECURSIVE JoinBlank(_)
\* diffs.join('\n\n')
JoinBlank(ds) ==
    IF ds = <<>> THEN <<>>
    ELSE IF Len(ds) = 1 THEN Head(ds)
    ELSE Head(ds) \o <<NL, NL>> \o JoinBlank(Tail(ds))

\* Failure that loses the message of the error caught.
FailureWithoutCause(message) == <<"Failed to generate git diff">>

\* The error generateNativeGitDiff rethrows from its catch block.
Failure(message) == <<"Failed to generate git diff: Error: ">> \o message

\* ------------------------------------------------------------------- state
VARIABLES
    pc,              \* "start": arguments chosen; "loop": generateNativeGitDiff
                     \* is in its loop over the files; "done": the function
                     \* has returned; "failed": it has thrown
    op,              \* "none", then the diff function applied ("precise",
                     \* "unified"); "native" while generateNativeGitDiff runs
    relPath,         \* oldPath and newPath of the file
    oldContent,      \* text of the old version of the file
    newContent,      \* text of the new version of the file
    contextLines,    \* number of context lines asked for
    diffResult,      \* the parts returned by jsdiff.diffLines
    hunks,           \* the hunks assembled for the file
    oldLineNum,      \* running old line number when the assembler returned
    newLineNum,      \* running new line number when the assembler returned
    result,          \* the text returned
    changes,         \* the changes reported by repository.diffBetween
    excludeDeletes,  \* argument excludeDeletes
    fileExtensions,  \* argument fileExtensions
    filteredChanges, \* the changes left after the two filters
    idx,             \* number of files the loop has dealt with
    diffs,           \* the per-file diffs pushed so far
    lastLog,         \* what the loop logged last about the file it dealt with
    error            \* the message of the error thrown

diffVars == <<relPath, oldContent, newContent, contextLines, diffResult, hunks,
              oldLineNum, newLineNum, result>>

nativeVars == <<changes, excludeDeletes, fileExtensions, filteredChanges, idx,
                diffs, lastLog, error>>

\* State of the other operations of the extension.
VARIABLES
    pathspecs,       \* the patterns parseFileExtensionsFilter returned
    diffText,        \* the argument diff of formatDiffAsMarkdown
    markdown,        \* the text formatDiffAsMarkdown returned
    favoritePrompts, \* the setting diffLens.favoritePrompts
    calls,           \* the calls of FavoritePromptsService made so far
    cachedGitAPI,    \* the cached handle, 0 for undefined
    gitAPILastRefresh, \* the time of the query that filled the cache
    clock,           \* Date.now()
    isActive,        \* gitExtension.isActive
    queries,         \* number of handles the Git extension has given out
    gitCalls,        \* the calls of getGitAPI made so far
    mustRequery,     \* the cache was cleared since the last call started
    workspaceFolders, \* number of folders of vscode.workspace
    settings,        \* the settings diffLens.* that getConfiguration reads
    customPrompts,   \* the argument customPrompts of runCodeReview
    config,          \* the configuration runCodeReview works with
    events           \* what runCodeReview has called so far

filterVars == <<pathspecs>>

FilterIdle == pathspecs = <<>>

markdownVars == <<diffText, markdown>>

MarkdownIdle == diffText = <<>> /\ markdown = <<>>

promptVars == <<favoritePrompts, calls>>

PromptIdle == favoritePrompts = <<>> /\ calls = <<>>

gitVars == <<cachedGitAPI, gitAPILastRefresh, clock, isActive, queries, gitCalls,
             mustRequery>>

GitIdle ==
    /\ cachedGitAPI = 0
    /\ gitAPILastRefresh = 0
    /\ clock = 0
    /\ isActive = FALSE
    /\ queries = 0
    /\ gitCalls = <<>>
    /\ mustRequery = FALSE

reviewVars == <<workspaceFolders, settings, customPrompts, config, events>>

ReviewIdle ==
    /\ workspaceFolders = 0
    /\ settings = <<>>
    /\ customPrompts = <<>>
    /\ config = <<>>
    /\ events = <<>>

restVars == <<filterVars, markdownVars, promptVars, gitVars, reviewVars>>

RestIdle == FilterIdle /\ MarkdownIdle /\ PromptIdle /\ GitIdle /\ ReviewIdle

vars == <<pc, op, diffVars, nativeVars, restVars>>

Paths == {<<"f", ".", "t", "s">>}

\* --------------------------------------------- the two diff functions alone
InitDiff ==
    /\ pc = "start"
    /\ op = "none"
    /\ relPath \in Paths
    /\ oldContent \in OldContents
    /\ newContent \in Contents
    /\ contextLines \in 0..MaxContext
    /\ diffResult = <<>>
    /\ hunks = <<>>
    /\ oldLineNum = 0
    /\ newLineNum = 0
    /\ result = <<>>
    /\ changes = <<>>
    /\ excludeDeletes = FALSE
    /\ fileExtensions = <<>>
    /\ filteredChanges = <<>>
    /\ idx = 0
    /\ diffs = <<>>
    /\ lastLog = "none"
    /\ error = <<>>
    /\ RestIdle

\* generatePreciseUnifiedDiff(relPath, relPath, oldContent, newContent,
\* contextLines)
GeneratePreciseUnifiedDiff ==
    /\ pc = "start"
    /\ op = "none"
    /\ \E parts \in diffLines(oldContent, newContent) :
          \E r \in {PreciseUnifiedDiff(relPath, relPath, oldContent, newContent,
                                      contextLines, parts)} :
              /\ diffResult' = parts
              /\ hunks' = r.hunks
              /\ oldLineNum' = r.oldLineNum
              /\ newLineNum' = r.newLineNum
              /\ result' = r.text
    /\ pc' = "done"
    /\ op' = "precise"
    /\ UNCHANGED <<relPath, oldContent, newContent, contextLines, nativeVars,
                   restVars>>

\* generateUnifiedDiff(relPath, relPath, oldContent, newContent, contextLines)
GenerateUnifiedDiff ==
    /\ pc = "start"
    /\ op = "none"
    /\ \E parts \in diffLines(oldContent, newContent) :
          \E r \in {UnifiedDiff(relPath, relPath, oldContent, newContent,
                               contextLines, parts)} :
              /\ diffResult' = parts
              /\ hunks' = r.hunks
              /\ result' = r.text
    /\ pc' = "done"
    /\ op' = "unified"
    /\ UNCHANGED <<relPath, oldContent, newContent, contextLines, oldLineNum,
                   newLineNum, nativeVars, restVars>>

\* --------------------------------------------------- generateNativeGitDiff
MaxFiles == 2

\* The statuses the repository reports for the changes of the model.
Statuses ==
    {"INDEX_ADDED", "ADDED_BY_US", "MODIFIED", "DELETED", "INDEX_DELETED",
     "INDEX_RENAMED"}

\* The relative path of the k-th change, and the path a renamed file had.
PathOf(k) ==
    IF k = 1 THEN <<"a", ".", "t", "s">>
    ELSE IF k = 2 THEN <<"d", "/", "b", ".", "j", "s">>
    ELSE <<"d", "/", "c", ToString(k), ".", "t", "s">>

OriginalPathOf(k) == <<"o", "l", "d", "/">> \o PathOf(k)

ChangeLists ==
    UNION {[1..n -> Statuses] : n \in 0..MaxFiles}

\* The values of the argument fileExtensions.
FilterInputs == {<<>>, <<"t", "s">>}

\* The texts a file can have at the base commit or in the working tree.
FileTexts == {<<>>, <<"a", NL, "b", NL>>, <<"a", NL, "b">>}

\* What readFile gives for a file that cannot be read.
Unreadable == <<"ENOENT">>

\* The patch text the repository may hold for a modified file, with or
\* without a final newline.
PatchTexts(path) ==
    LET body == <<"diff --git a/">> \o path \o <<" b/">> \o path
                \o <<NL, "@@ -1,1 +1,1 @@", NL, "-", "a", NL, "+", "b">>
    IN  {body, body \o <<NL>>}

InitNative ==
    /\ pc = "start"
    /\ op = "native"
    /\ relPath = <<>>
    /\ oldContent = <<>>
    /\ newContent = <<>>
    /\ contextLines \in {0, MaxContext}
    /\ diffResult = <<>>
    /\ hunks = <<>>
    /\ oldLineNum = 0
    /\ newLineNum = 0
    /\ result = <<>>
    /\ \E sts \in ChangeLists :
          changes = [k \in 1..Len(sts) |->
                        [path |-> PathOf(k), originalPath |->
                             IF sts[k] = "INDEX_RENAMED" THEN OriginalPathOf(k)
                             ELSE PathOf(k),
                         status |-> sts[k]]]
    /\ excludeDeletes \in BOOLEAN
    /\ fileExtensions \in FilterInputs
    /\ filteredChanges = <<>>
    /\ idx = 0
    /\ diffs = <<>>
    /\ lastLog = "none"
    /\ error = <<>>
    /\ RestIdle

\* generateNativeGitDiff up to its loop: the workspace folder, the repository
\* and the commit range are looked up, the changes are fetched and filtered.
NativeStart ==
    /\ pc = "start"
    /\ op = "native"
    /\ \E lookup \in {"ok", "Workspace folder not found", "Git repository not found",
                      "Not enough commits to compare"} :
          IF lookup # "ok"
          THEN /\ pc' = "failed"
               /\ error' = Failure(<<lookup>>)
               /\ UNCHANGED <<filteredChanges>>
          ELSE LET kept == FilterDeletes(FilterByExtension(changes, fileExtensions),
                                         excludeDeletes)
               IN  /\ filteredChanges' = kept
                   /\ IF kept = <<>>
                      THEN /\ pc' = "failed"
                           /\ error' = Failure(<<"No changes found">>)
                      ELSE /\ pc' = "loop"
                           /\ error' = error
    /\ UNCHANGED <<op, diffVars, changes, excludeDeletes, fileExtensions, idx,
                   diffs, lastLog, restVars>>

\* What one turn of the loop does with a change, given what the environment
\* answers: cur, the text readFile gives (or Unreadable); old, the text
\* getFileContentAtCommit finds for the path ('' when it finds none); orig,
\* the text getAdvancedFileContent finds for the original path; patch, the
\* patch text found by diffBetween, diffWith or in the commit object ('' when
\* none); parts, the line diff inside generateUnifiedDiff.
ProcessChange(change, cur, old, orig, patch, ctxLines) ==
    IF IsAddedStatus(change.status) /\ cur # Unreadable
    THEN {[push |-> <<AdditionDiff(change.path, change.path, cur)>>,
           old |-> <<>>, new |-> cur, parts |-> <<>>, hunks |-> <<>>,
           log |-> "Generated git show style addition diff"]}
    ELSE IF IsModifiedStatus(change.status) /\ patch # <<>>
    THEN {[push |-> <<patch>>,
           old |-> <<>>, new |-> <<>>, parts |-> <<>>, hunks |-> <<>>,
           log |-> "Used actual diff content"]}
    ELSE LET read == IF cur = Unreadable THEN <<>> ELSE cur
             oldC == IF IsAddedStatus(change.status) THEN <<>>
                     ELSE IF change.status = "INDEX_RENAMED" THEN orig
                     ELSE old
             newC == IF IsDeletedStatus(change.status) THEN <<>> ELSE read
         IN  IF oldC = <<>> /\ newC = <<>>
             THEN {[push |-> <<>>, old |-> oldC, new |-> newC, parts |-> <<>>,
                    hunks |-> <<>>, log |-> "Skipping diff - no content available"]}
             ELSE UNION {
                    {[push |-> IF r.text # <<>> THEN <<r.text>> ELSE <<>>,
                      old |-> oldC, new |-> newC, parts |-> parts,
                      hunks |-> r.hunks,
                      log |-> IF r.text # <<>> THEN "Generated diff"
                              ELSE "No meaningful diff generated"] :
                     r \in {UnifiedDiff(change.path, change.path, oldC, newC,
                                        ctxLines, parts)}} :
                    parts \in diffLines(oldC, newC)}

\* The answers of the environment to the questions one turn of the loop asks
\* about a change; an answer the loop does not use for a change of that status
\* is left empty.
Answers(change) ==
    {a \in [cur : FileTexts \cup {Unreadable}, old : FileTexts, orig : FileTexts,
            patch : PatchTexts(change.path) \cup {<<>>}] :
        /\ IsDeletedStatus(change.status) => a.cur = <<>>
        /\ (IsAddedStatus(change.status) \/ change.status = "INDEX_RENAMED")
              => a.old = <<>>
        /\ change.status # "INDEX_RENAMED" => a.orig = <<>>
        /\ ~IsModifiedStatus(change.status) => a.patch = <<>>}

\* NativeFile with a loop that lets a failed retrieval escape: a file whose
\* contents are not available ends generateNativeGitDiff with an error.
NativeFileThrowsOnNoContent ==
    /\ pc = "loop"
    /\ idx < Len(filteredChanges)
    /\ LET change == filteredChanges[idx + 1]
       IN  \E a \in Answers(change) :
              \E out \in ProcessChange(change, a.cur, a.old, a.orig, a.patch,
                                       contextLines) :
                  /\ relPath' = change.path
                  /\ oldContent' = out.old
                  /\ newContent' = out.new
                  /\ diffResult' = out.parts
                  /\ hunks' = out.hunks
                  /\ diffs' = diffs \o out.push
                  /\ lastLog' = out.log
                  /\ idx' = idx + 1
                  /\ IF out.log = "Skipping diff - no content available"
                     THEN /\ result' = result
                          /\ pc' = "failed"
                          /\ error' = Failure(<<"no content available">>)
                     ELSE IF idx + 1 = Len(filteredChanges)
                     THEN /\ result' = JoinBlank(diffs \o out.push)
                          /\ pc' = "done"
                          /\ error' = error
                     ELSE /\ result' = result
                          /\ pc' = "loop"
                          /\ error' = error
    /\ UNCHANGED <<op, contextLines, oldLineNum, newLineNum, changes,
                   excludeDeletes, fileExtensions, filteredChanges, restVars>>

\* One turn of the loop over filteredChanges; after the last file the diffs
\* are joined and returned.
NativeFile ==
    /\ pc = "loop"
    /\ idx < Len(filteredChanges)
    /\ LET change == filteredChanges[idx + 1]
       IN  \E a \in Answers(change) :
              \E out \in ProcessChange(change, a.cur, a.old, a.orig, a.patch,
                                       contextLines) :
                  /\ relPath' = change.path
                  /\ oldContent' = out.old
                  /\ newContent' = out.new
                  /\ diffResult' = out.parts
                  /\ hunks' = out.hunks
                  /\ diffs' = diffs \o out.push
                  /\ lastLog' = out.log
                  /\ idx' = idx + 1
                  /\ IF idx + 1 = Len(filteredChanges)
                     THEN /\ result' = JoinBlank(diffs \o out.push)
                          /\ pc' = "done"
                     ELSE /\ result' = result
                          /\ pc' = "loop"
    /\ UNCHANGED <<op, contextLines, oldLineNum, newLineNum, changes,
                   excludeDeletes, fileExtensions, filteredChanges, error,
                   restVars>>

Init == InitDiff \/ InitNative

Next ==
    \/ GeneratePreciseUnifiedDiff
    \/ GenerateUnifiedDiff
    \/ NativeStart
    \/ NativeFile

Spec == Init /\ [][Next]_vars

\* ---------------------------------------------- reading hunks and the script
\* The function that was applied has returned.
Returned(f) == pc = "done" /\ op = f

\* Number of lines of hunk h whose prefix is in the set ps.
CountPrefix(h, ps) == Cardinality({k \in 1..Len(h.lines) : h.lines[k][1] \in ps})

\* Number of ' ' lines of h before its first changed line.
Lead(h) ==
    CHOOSE n \in 0..Len(h.lines) :
        /\ \A k \in 1..n : h.lines[k][1] = " "
        /\ n < Len(h.lines) => h.lines[n + 1][1] # " "

\* Number of ' ' lines of h after its last changed line.
Trail(h) ==
    CHOOSE n \in 0..Len(h.lines) :
        /\ \A k \in (Len(h.lines) - n + 1)..Len(h.lines) : h.lines[k][1] = " "
        /\ n < Len(h.lines) => h.lines[Len(h.lines) - n][1] # " "

\* Number of line tokens of a part of the edit script.
PartSize(part) == Len(Tokenize(part.value))

IsChange(part) == part.added \/ part.removed

RECURSIVE ChangeRunsFrom(_, _, _, _)
\* The change runs of an edit script from part k on, o and n being the old and
\* new line number where part k begins: for each run its first old and new
\* line, the old and new line after it, and the lengths of the unchanged runs
\* directly before and after it.
ChangeRunsFrom(parts, k, o, n) ==
    IF k > Len(parts) THEN <<>>
    ELSE IF ~IsChange(parts[k])
    THEN ChangeRunsFrom(parts, k + 1, o + PartSize(parts[k]), n + PartSize(parts[k]))
    ELSE LET last == CHOOSE e \in k..Len(parts) :
                         /\ \A m \in k..e : IsChange(parts[m])
                         /\ e < Len(parts) => ~IsChange(parts[e + 1])
             removedCount == Len(Flatten([m \in 1..(last - k + 1) |->
                                 IF parts[k + m - 1].removed
                                 THEN Tokenize(parts[k + m - 1].value) ELSE <<>>]))
             addedCount == Len(Flatten([m \in 1..(last - k + 1) |->
                               IF parts[k + m - 1].added
                               THEN Tokenize(parts[k + m - 1].value) ELSE <<>>]))
         IN  <<[old |-> o, new |-> n,
                oldEnd |-> o + removedCount, newEnd |-> n + addedCount,
                before |-> IF k > 1 THEN PartSize(parts[k - 1]) ELSE 0,
                after |-> IF last < Len(parts) THEN PartSize(parts[last + 1]) ELSE 0]>>
             \o ChangeRunsFrom(parts, last + 1, o + removedCount, n + addedCount)

ChangeRuns == ChangeRunsFrom(diffResult, 1, 1, 1)

\* The line sequences of the two contents, one text per line.
LinesOf(content) == [k \in 1..Len(Tokenize(content)) |->
                        LET t == Tokenize(content)[k]
                        IN  IF t[Len(t)] = NL THEN SubSeq(t, 1, Len(t) - 1) ELSE t]

\* The text of hunk line k of h without its prefix.
LineText(h, k) == Tail(h.lines[k])

\* The two contents have one shortest edit script only, so that the parts the
\* library returns do not depend on how it chooses among several.
Unambiguous == Cardinality(diffLines(oldContent, newContent)) = 1

\* ------------------------------------------------------------------ claims

\* C1: in every hunk returned by generateHunksWithContext the header count
\* oldLines is the number of ' ' and '-' lines of the hunk, and newLines the
\* number of its ' ' and '+' lines.
C1_HeaderCountsMatchLines ==
    Returned("precise") =>
        \A k \in 1..Len(hunks) :
            /\ hunks[k].oldLines = CountPrefix(hunks[k], {" ", "-"})
            /\ hunks[k].newLines = CountPrefix(hunks[k], {" ", "+"})

C1_Witness ==
    /\ Returned("precise")
    /\ \E k \in 1..Len(hunks) :
          /\ CountPrefix(hunks[k], {" "}) > 0
          /\ CountPrefix(hunks[k], {"-"}) > 0
          /\ CountPrefix(hunks[k], {"+"}) > 0
          /\ Lead(hunks[k]) > 0
          /\ Trail(hunks[k]) > 0

\* C2 to C5 and C7 are stated for the contents with one shortest edit script.

\* C2: the hunks of one file are in ascending order and never overlap: for
\* consecutive hunks h1, h2, h1.oldStart + h1.oldLines <= h2.oldStart and
\* h1.newStart + h1.newLines <= h2.newStart.
C2_HunksDoNotOverlap ==
    (Returned("precise") /\ Unambiguous) =>
        \A k \in 1..(Len(hunks) - 1) :
            /\ hunks[k].oldStart + hunks[k].oldLines <= hunks[k + 1].oldStart
            /\ hunks[k].newStart + hunks[k].newLines <= hunks[k + 1].newStart

\* C3: oldStart and newStart of every hunk are the running old and new line
\* number at the change minus the number of context-before lines emitted,
\* never below 1.
C3_StartsAreFirstLines ==
    (Returned("precise") /\ Unambiguous) =>
        \A k \in 1..Len(hunks) :
            /\ hunks[k].oldStart = Max(1, ChangeRuns[k].old - Lead(hunks[k]))
            /\ hunks[k].newStart = Max(1, ChangeRuns[k].new - Lead(hunks[k]))

\* C4: every ' ' line of a hunk is an unchanged line of the unchanged run
\* directly before or after the change, at the corresponding position of both
\* the old and the new line sequence.
C4_ContextIsUnchanged ==
    (Returned("precise") /\ Unambiguous) =>
        \A k \in 1..Len(hunks) :
            LET h == hunks[k]
                run == ChangeRuns[k]
                oldSeq == LinesOf(oldContent)
                newSeq == LinesOf(newContent)
            IN  /\ Lead(h) <= run.before
                /\ Trail(h) <= run.after
                /\ \A i \in 1..Lead(h) :
                      /\ LineText(h, i) = oldSeq[run.old - Lead(h) + i - 1]
                      /\ LineText(h, i) = newSeq[run.new - Lead(h) + i - 1]
                /\ \A i \in 1..Trail(h) :
                      /\ LineText(h, Len(h.lines) - Trail(h) + i) = oldSeq[run.oldEnd + i - 1]
                      /\ LineText(h, Len(h.lines) - Trail(h) + i) = newSeq[run.newEnd + i - 1]

\* C5: a change preceded by at least contextLines unchanged lines has exactly
\* contextLines context lines before it in its hunk, and a change followed by
\* at least contextLines unchanged lines has exactly contextLines after it.
C5_ExactContextWhenAvailable ==
    (Returned("precise") /\ Unambiguous) =>
        \A k \in 1..Len(hunks) :
            /\ ChangeRuns[k].before >= contextLines => Lead(hunks[k]) = contextLines
            /\ ChangeRuns[k].after >= contextLines => Trail(hunks[k]) = contextLines

\* C6: in every hunk the run of ' ' lines before the first changed line and
\* the run of ' ' lines after the last changed line have at most contextLines
\* lines each and hold all the ' ' lines of the hunk; with contextLines = 0 a
\* hunk has '+' and '-' lines only.
C6_ContextAtMostContextLines ==
    Returned("precise") =>
        \A k \in 1..Len(hunks) :
            /\ Lead(hunks[k]) <= contextLines
            /\ Trail(hunks[k]) <= contextLines
            /\ CountPrefix(hunks[k], {" "}) = Lead(hunks[k]) + Trail(hunks[k])
            /\ contextLines = 0 => CountPrefix(hunks[k], {" "}) = 0

C6_Witness ==
    /\ Returned("precise")
    /\ contextLines = 2
    /\ \E k \in 1..Len(hunks) : Lead(hunks[k]) = 2
    /\ \E k \in 1..Len(hunks) : Trail(hunks[k]) = 2

\* C7: two change runs separated by an unchanged run of at most
\* 2 * contextLines lines are emitted in one hunk: there are no more hunks
\* than one plus the number of longer unchanged runs between changes.
C7_NearbyChangesShareAHunk ==
    (Returned("precise") /\ Unambiguous) =>
        Len(hunks) <= 1 + Cardinality({k \in 1..(Len(ChangeRuns) - 1) :
                                          ChangeRuns[k].after > 2 * contextLines})

\* C8: the edit script reconstructs both inputs (its unchanged and removed
\* parts are the old content, its unchanged and added parts the new content),
\* and after all parts the running counters of generateHunksWithContext are
\* the number of old lines plus one and the number of new lines plus one.
C8_ScriptReconstructsInputs ==
    (Returned("precise") /\ oldLineNum # 0) =>
        /\ Flatten([k \in 1..Len(diffResult) |->
               IF diffResult[k].added THEN <<>> ELSE diffResult[k].value]) = oldContent
        /\ Flatten([k \in 1..Len(diffResult) |->
               IF diffResult[k].removed THEN <<>> ELSE diffResult[k].value]) = newContent
        /\ oldLineNum = Len(LinesOf(oldContent)) + 1
        /\ newLineNum = Len(LinesOf(newContent)) + 1

C8_Witness ==
    /\ Returned("precise")
    /\ Len(diffResult) >= 4
    /\ oldLineNum = 4
    /\ newLineNum = 3

\* C9: diffing a non-empty content against itself gives no hunk:
\* generatePreciseUnifiedDiff and generateUnifiedDiff return the empty string,
\* and the turn of the loop of generateNativeGitDiff that compares the two
\* equal contents pushes nothing, so that the joined output is the join of
\* the diffs of the other files.
C9_SameContentEmptyDiff ==
    [][(oldContent' = newContent' /\ oldContent' # <<>>) =>
          /\ (pc' = "done" /\ op' \in {"precise", "unified"}) =>
                (result' = <<>> /\ hunks' = <<>>)
          /\ (op' = "native" /\ idx' = idx + 1) =>
                /\ hunks' = <<>>
                /\ diffs' = diffs
                /\ pc' = "done" => result' = JoinBlank(diffs)]_vars

C9_Witness ==
    /\ op = "native"
    /\ pc = "done"
    /\ oldContent = newContent
    /\ oldContent # <<>>
    /\ lastLog = "No meaningful diff generated"
    /\ Len(diffs) = 1
    /\ result = diffs[1]

\* C10: for a file with an added status whose content was read and is not
\* empty, the diff pushed is the new-file header followed by one hunk
\* '@@ -0,0 +1,n @@' and n '+' lines, one per line of the content, n being
\* the number of lines of the content.
C10_AdditionHunkCountsLines ==
    (op = "native" /\ lastLog = "Generated git show style addition diff"
       /\ newContent # <<>>) =>
        LET ls == LinesOf(newContent)
        IN  diffs[Len(diffs)] =
                <<"diff --git a/">> \o relPath \o <<" b/">> \o relPath
                \o <<NL, "new file mode 100644", NL, "index 0000000..0000000",
                     NL, "--- /dev/null", NL, "+++ b/">> \o relPath
                \o <<NL, "@@ -0,0 +1,", ToString(Len(ls)), " @@">>
                \o Flatten([k \in 1..Len(ls) |-> <<NL, "+">> \o ls[k]])

\* C11: when oldContent is not empty and has n lines and newContent is empty,
\* generateUnifiedDiff returns a block with 'deleted file mode 100644',
\* '--- a/<oldPath>' and '+++ /dev/null', followed by one hunk with the
\* header '@@ -1,n +0,0 @@' whose lines are the n old lines, each with the
\* prefix '-'.  A line '\ No newline at end of file', which the library adds
\* in some of its versions, is not held against the claim.
C11_DeletionHunk ==
    (Returned("unified") /\ oldContent # <<>> /\ newContent = <<>>) =>
        LET ls == LinesOf(oldContent)
            n == Len(ls)
        IN  /\ Includes(result, <<"deleted file mode 100644", NL>>)
            /\ Includes(result, <<"--- a/">> \o relPath \o <<NL, "+++ /dev/null", NL>>)
            /\ Len(hunks) = 1
            /\ hunks[1].oldStart = 1
            /\ hunks[1].oldLines = n
            /\ hunks[1].newStart = 0
            /\ hunks[1].newLines = 0
            /\ SelectSeq(hunks[1].lines, LAMBDA l : l # NoNewlineMarker)
                   = Prefixed("-", ls)
            /\ EndsWith(result, TrimEndNewlines(RenderHunks(hunks)))

\* The turn of the loop of generateNativeGitDiff just taken went down to the
\* manual diff: it fetched the old and the new content itself.
ManualPath ==
    lastLog \in {"Generated diff", "No meaningful diff generated",
                 "Skipping diff - no content available"}

\* C12: generateUnifiedDiff returns the empty string when oldContent and
\* newContent are both empty; a turn of the loop of generateNativeGitDiff
\* that resolves both contents of its file to the empty string logs that it
\* skips the file, pushes nothing, throws nothing, and the loop goes on with
\* the next file when there is one.
C12_BothEmptySkipped ==
    [][(oldContent' = <<>> /\ newContent' = <<>>) =>
          /\ (pc' = "done" /\ op' = "unified") => (result' = <<>> /\ hunks' = <<>>)
          /\ (op' = "native" /\ idx' = idx + 1 /\ ManualPath') =>
                /\ lastLog' = "Skipping diff - no content available"
                /\ diffs' = diffs
                /\ error' = <<>>
                /\ pc' = IF idx' < Len(filteredChanges) THEN "loop" ELSE "done"]_vars

C12_Witness ==
    /\ op = "native"
    /\ pc = "loop"
    /\ idx = 1
    /\ ManualPath
    /\ oldContent = <<>>
    /\ newContent = <<>>
    /\ diffs = <<>>

\* C13: for a change with status INDEX_RENAMED whose original path differs
\* from its path, the diff generateNativeGitDiff pushes is that of a modified
\* file with two paths: the original path after 'diff --git a/' and '--- a/',
\* the new path after ' b/' and '+++ b/'.
C13_RenameShowsBothPaths ==
    (op = "native" /\ idx > 0 /\ lastLog = "Generated diff"
       /\ oldContent # <<>> /\ newContent # <<>>) =>
        LET change == filteredChanges[idx]
            diff == diffs[Len(diffs)]
        IN  (change.status = "INDEX_RENAMED" /\ change.originalPath # change.path) =>
                /\ StartsWith(diff, <<"diff --git a/">> \o change.originalPath
                                    \o <<" b/">> \o change.path \o <<NL>>)
                /\ Includes(diff, <<NL, "--- a/">> \o change.originalPath
                                  \o <<NL, "+++ b/">> \o change.path \o <<NL>>)

\* C14: when the manual diff of generateNativeGitDiff finds no old content
\* for a file (every retrieval failed or gave nothing) and the current
\* content is not empty, nothing is thrown and the file is rendered as newly
\* added: a header with 'new file mode 100644' and '--- /dev/null', and hunk
\* lines that are the lines of the current content as additions (the line
\* '\ No newline at end of file' of the library apart).
C14_MissingOldContentRendersAsAdded ==
    (op = "native" /\ ManualPath /\ oldContent = <<>> /\ newContent # <<>>) =>
        /\ lastLog = "Generated diff"
        /\ pc # "failed"
        /\ error = <<>>
        /\ diffs # <<>>
        /\ StartsWith(diffs[Len(diffs)],
                      <<"diff --git a/">> \o relPath \o <<" b/">> \o relPath
                      \o <<NL, "new file mode 100644", NL,
                           "index 0000000..0000000", NL, "--- /dev/null", NL,
                           "+++ b/">> \o relPath \o <<NL, "@@ -">>)
        /\ Len(hunks) = 1
        /\ SelectSeq(hunks[1].lines, LAMBDA l : l # NoNewlineMarker)
              = Prefixed("+", LinesOf(newContent))

C14_Witness ==
    /\ op = "native"
    /\ ManualPath
    /\ oldContent = <<>>
    /\ newContent # <<>>
    /\ filteredChanges[idx].status = "MODIFIED"
    /\ pc = "loop"

\* C15: with excludeDeletes = TRUE no change with status DELETED or
\* INDEX_DELETED is left after the filters, no turn of the loop pushes a diff
\* for such a change, and the text returned has no 'diff --git' line of the
\* path of one, whatever the extension filter; with excludeDeletes = FALSE
\* the changes left are those the extension filter lets through, the deleted
\* ones among them.
C15_ExcludeDeletes ==
    [][(op' = "native" /\ pc' \in {"loop", "done"}) =>
          IF excludeDeletes'
          THEN /\ \A k \in 1..Len(filteredChanges') :
                     ~IsDeletedStatus(filteredChanges'[k].status)
               /\ (idx' = idx + 1 /\ diffs' # diffs) =>
                     ~IsDeletedStatus(filteredChanges'[idx'].status)
               /\ pc' = "done" =>
                     \A k \in 1..Len(changes') :
                         IsDeletedStatus(changes'[k].status) =>
                             ~Includes(result', <<"diff --git a/">>
                                                \o changes'[k].path \o <<" b/">>)
          ELSE filteredChanges' = FilterByExtension(changes', fileExtensions')]_vars

C15_Witness ==
    /\ op = "native"
    /\ pc = "done"
    /\ excludeDeletes
    /\ Len(changes) = 2
    /\ IsDeletedStatus(changes[1].status)
    /\ Len(filteredChanges) = 1
    /\ result # <<>>

\* C16: when generateNativeGitDiff gets past its lookups and no change is left
\* after the extension filter and the exclude-deletes rule, it throws an error
\* whose message contains 'No changes found' instead of returning, and takes
\* no turn of the per-file loop, neither then nor later.
C16_NoChangesFound ==
    [][/\ (op = "native" /\ pc = "start"
             /\ FilterDeletes(FilterByExtension(changes, fileExtensions),
                              excludeDeletes) = <<>>
             /\ \A m \in {"Workspace folder not found", "Git repository not found",
                           "Not enough commits to compare"} :
                    ~Includes(error', <<m>>)) =>
             /\ pc' = "failed"
             /\ Includes(error', <<"No changes found">>)
             /\ idx' = 0
             /\ diffs' = <<>>
             /\ lastLog' = "none"
             /\ result' = <<>>
       /\ pc # "failed"]_vars

C16_Witness ==
    /\ op = "native"
    /\ pc = "failed"
    /\ Includes(error, <<"No changes found">>)
    /\ Len(changes) = 2
    /\ excludeDeletes
    /\ fileExtensions = <<>>

\* C17: generateNativeGitDiff never returns the empty string: when no file
\* contributes a diff the caller gets an error.
C17_NeverReturnsEmpty ==
    (op = "native" /\ pc = "done") => result # <<>>

\* C18: the diffs in the text generateNativeGitDiff returns are in the order
\* of their changes in the filtered list: the diffs pushed so far are those of
\* files the loop has dealt with, in ascending order of their place in the
\* list, whichever path made each of them, and the text returned is these
\* diffs in that order with a blank line between them.
C18_OutputInChangeOrder ==
    (op = "native" /\ pc \in {"loop", "done"}) =>
        /\ \E f \in [1..Len(diffs) -> 1..idx] :
              /\ \A i, j \in 1..Len(diffs) : i < j => f[i] < f[j]
              /\ \A i \in 1..Len(diffs) :
                    StartsWith(diffs[i], <<"diff --git a/">> \o filteredChanges[f[i]].path
                                         \o <<" b/">> \o filteredChanges[f[i]].path)
        /\ pc = "done" =>
              result = Flatten([i \in 1..Len(diffs) |->
                                   IF i = 1 THEN diffs[i] ELSE <<NL, NL>> \o diffs[i]])

C18_Witness ==
    /\ op = "native"
    /\ pc = "done"
    /\ Len(diffs) = 2
    /\ Includes(diffs[1], <<"new file mode 100644">>)
    /\ lastLog = "Used actual diff content"

\* C19: a failed retrieval of the content of one file is isolated: no turn of
\* the loop of generateNativeGitDiff ends the function with an error, a turn
\* leaves the diffs of the files before it as they are, and what it pushes
\* for its file is given by what it resolved for this file alone (its path,
\* status, patch text and contents), whatever happened to the other files.
C19_RetrievalFailureIsolated ==
    [][(op = "native" /\ pc = "loop") =>
          LET change == filteredChanges[idx + 1]
              pushed == SubSeq(diffs', Len(diffs) + 1, Len(diffs'))
          IN  /\ pc' \in {"loop", "done"}
              /\ error' = <<>>
              /\ idx' = idx + 1
              /\ SubSeq(diffs', 1, Len(diffs)) = diffs
              /\ IF lastLog' = "Generated git show style addition diff"
                 THEN pushed = <<AdditionDiff(change.path, change.path, newContent')>>
                 ELSE IF lastLog' = "Used actual diff content"
                 THEN Len(pushed) = 1 /\ pushed[1] \in PatchTexts(change.path)
                 ELSE IF lastLog' = "Generated diff"
                 THEN pushed = <<UnifiedDiff(change.path, change.path, oldContent',
                                             newContent', contextLines, diffResult').text>>
                 ELSE pushed = <<>>]_vars

C19_Witness ==
    /\ op = "native"
    /\ pc = "done"
    /\ idx = 2
    /\ filteredChanges[1].status = "INDEX_ADDED"
    /\ Len(diffs) = 1
    /\ lastLog = "Generated diff"
    /\ StartsWith(diffs[1], <<"diff --git a/">> \o filteredChanges[2].path)

\* C20: in the text generateNativeGitDiff returns, the diffs of consecutive
\* files are separated by exactly one blank line, whichever path made them:
\* every 'diff --git' line but the first follows exactly one empty line, and
\* the text neither begins nor ends with a blank line.
C20_OneBlankLineBetweenFiles ==
    (op = "native" /\ pc = "done" /\ result # <<>>) =>
        /\ ~Includes(result, <<NL, NL, NL>>)
        /\ Head(result) # NL
        /\ ~EndsWith(result, <<NL, NL>>)
        /\ Cardinality({k \in 1..Len(result) : result[k] = "diff --git a/"})
              = 1 + Cardinality({k \in 3..Len(result) :
                                    /\ result[k] = "diff --git a/"
                                    /\ result[k - 1] = NL
                                    /\ result[k - 2] = NL})

\* C21: every file generateNativeGitDiff drops because of the extension filter
\* or the exclude-deletes rule is reported to the caller: what the function
\* returns names every change that is not in the filtered list.
C21_DroppedFilesReported ==
    (op = "native" /\ pc = "done") =>
        \A k \in 1..Len(changes) :
            (\A j \in 1..Len(filteredChanges) : filteredChanges[j] # changes[k])
                => Includes(result, changes[k].path)

\* ------------------------------------------------ the file extensions filter
\* The values the variables of the diff functions and of generateNativeGitDiff
\* have while another operation of the extension runs.
DiffIdle ==
    /\ relPath = <<>>
    /\ oldContent = <<>>
    /\ newContent = <<>>
    /\ contextLines = 0
    /\ diffResult = <<>>
    /\ hunks = <<>>
    /\ oldLineNum = 0
    /\ newLineNum = 0
    /\ result = <<>>

NativeIdle ==
    /\ changes = <<>>
    /\ excludeDeletes = FALSE
    /\ fileExtensions = <<>>
    /\ filteredChanges = <<>>
    /\ idx = 0
    /\ diffs = <<>>
    /\ lastLog = "none"
    /\ error = <<>>

\* Number of extension tokens in a filter setting.
MaxTokens == 2

\* The tokens a user writes in the setting fileExtensions.
FilterTokens ==
    {<<"c", "s">>, <<".", "c", "s">>, <<"*", ".", "c", "s">>, <<"*", "c", "s">>,
     <<"t", "s">>, <<"*", "*", "/", "*", ".", "c", "s">>,
     <<"d", "/", "*", ".", "c", "s">>}

\* What the user writes between two tokens.
FilterSeparators == {<<",">>, <<";">>, <<" ">>, <<",", " ">>}

RECURSIVE FilterTexts(_)
\* The settings of exactly n tokens.
FilterTexts(n) ==
    IF n = 1 THEN FilterTokens
    ELSE {x \o sep \o t : x \in FilterTexts(n - 1), sep \in FilterSeparators,
                          t \in FilterTokens}

\* The values of the setting fileExtensions: empty, blank or separators only,
\* up to MaxTokens tokens, and a token with blanks around it.
FilterSettings ==
    {<<>>, <<" ">>, <<",">>, <<" ", ";", " ">>}
    \cup UNION {FilterTexts(n) : n \in 1..MaxTokens}
    \cup {<<" ">> \o t \o <<" ">> : t \in FilterTokens}

\* The relative paths of the changed files (vscode.workspace.asRelativePath).
FilterPaths ==
    {<<"a", ".", "c", "s">>, <<"d", "/", "a", ".", "c", "s">>,
     <<"e", "/", "d", "/", "a", ".", "c", "s">>, <<"d", "/", "a", ".", "t", "s">>,
     <<"d", "o", "c", "s">>}

\* The lists of changes the repository reports: one file or two different ones.
FilterChangeLists ==
    {<<p>> : p \in FilterPaths}
    \cup {<<pq[1], pq[2]>> : pq \in {x \in FilterPaths \X FilterPaths : x[1] # x[2]}}

InitFilter ==
    /\ pc = "start"
    /\ op = "none"
    /\ DiffIdle
    /\ \E ps \in FilterChangeLists :
          changes = [k \in 1..Len(ps) |->
                        [path |-> ps[k], originalPath |-> ps[k],
                         status |-> "MODIFIED"]]
    /\ excludeDeletes = FALSE
    /\ fileExtensions \in FilterSettings
    /\ filteredChanges = <<>>
    /\ idx = 0
    /\ diffs = <<>>
    /\ lastLog = "none"
    /\ error = <<>>
    /\ RestIdle

\* parseFileExtensionsFilter(fileExtensions)
ParseFileExtensionsFilter ==
    /\ pc = "start"
    /\ op = "none"
    /\ pathspecs' = parseFileExtensionsFilter(fileExtensions)
    /\ pc' = "done"
    /\ op' = "parse"
    /\ UNCHANGED <<diffVars, nativeVars, markdownVars, promptVars, gitVars,
                   reviewVars>>

\* "Filter by file extension if needed" of generateNativeGitDiff
ExtensionFilter ==
    /\ pc = "start"
    /\ op = "none"
    /\ filteredChanges' = FilterByExtension(changes, fileExtensions)
    /\ pc' = "done"
    /\ op' = "filter"
    /\ UNCHANGED <<diffVars, changes, excludeDeletes, fileExtensions, idx, diffs,
                   lastLog, error, restVars>>

NextFilter ==
    \/ ParseFileExtensionsFilter
    \/ ExtensionFilter

SpecFilter == InitFilter /\ [][NextFilter]_vars

\* ------------------------------------------------------ formatDiffAsMarkdown
\* Number of lines of the diff given to formatDiffAsMarkdown.
MaxMdLines == 4

DiffGitPrefix ==
    <<"d", "i", "f", "f", " ", "-", "-", "g", "i", "t", " ">>

DiffGitAPrefix == DiffGitPrefix \o <<"a", "/">>

\* The three backquotes that open and close a fenced block, as one element.
Fence == "[three backquotes]"

FenceOpen == <<Fence, "d", "i", "f", "f">>

FenceClose == <<Fence>>

UnknownFile ==
    <<"U", "n", "k", "n", "o", "w", "n", " ", "f", "i", "l", "e">>

\* The lines a diff is made of: file headers (the second with two readings of
\* its paths, the third without paths), metadata lines, a hunk header, hunk
\* lines and the empty line between two files.  '--- a/x' and '+++ k' are
\* metadata after a file header and, after a hunk header, the removed line
\* '-- a/x' and the added line '++ k'.
MdLines ==
    {<<"d", "i", "f", "f", " ", "-", "-", "g", "i", "t", " ", "a", "/", "x",
       " ", "b", "/", "y">>,
     <<"d", "i", "f", "f", " ", "-", "-", "g", "i", "t", " ", "a", "/", "c",
       " ", "b", "/", "d", " ", "b", "/", "e">>,
     <<"d", "i", "f", "f", " ", "-", "-", "g", "i", "t", " ", "x">>,
     <<"i", "n", "d", "e", "x", " ", "1">>,
     <<"-", "-", "-", " ", "a", "/", "x">>,
     <<"+", "+", "+", " ", "k">>,
     <<"@", "@", " ", "-", "1", " ", "+", "1", " ", "@", "@">>,
     <<" ", "c">>,
     <<>>}

RECURSIVE MdLineSeqs(_)
MdLineSeqs(n) ==
    IF n = 0 THEN {<<>>}
    ELSE {<<l>> \o ls : l \in MdLines, ls \in MdLineSeqs(n - 1)}

\* The texts given to formatDiffAsMarkdown: up to MaxMdLines lines.
MdInputs == {JoinNL(ls) : ls \in UNION {MdLineSeqs(n) : n \in 0..MaxMdLines}}


\* processFileContent with the test on fileContent.length left out.
processFileContentAlways(result_, currentFile, fileContent) ==
    IF currentFile # <<>>
    THEN result_ \o <<<<"#", "#", " ">> \o currentFile, <<>>, FenceOpen>>
                 \o fileContent \o <<FenceClose, <<>>>>
    ELSE result_

\* The helper processFileContent: the section of the file read last.
processFileContent(result_, currentFile, fileContent) ==
    IF currentFile # <<>> /\ fileContent # <<>>
    THEN result_ \o <<<<"#", "#", " ">> \o currentFile, <<>>, FenceOpen>>
                 \o fileContent \o <<FenceClose, <<>>>>
    ELSE result_

\* line.match(/diff --git a\/(.+) b\/(.+)/)[2], or the empty string when the
\* line does not match: the first group is greedy, so the second group
\* starts after the last ' b/' that leaves a character on both sides.
MatchDestination(line) ==
    LET ends == {q \in 1..(Len(line) - 3) :
                    /\ SubSeq(line, q, q + 2) = <<" ", "b", "/">>
                    /\ \E p \in 1..(q - Len(DiffGitAPrefix) - 1) :
                          SubSeq(line, p, p + Len(DiffGitAPrefix) - 1)
                              = DiffGitAPrefix}
    IN  IF ends = {} THEN <<>>
        ELSE LET q == CHOOSE e \in ends : \A x \in ends : x <= e
             IN  SubSeq(line, q + 3, Len(line))

IsMetadata(line) ==
    \/ StartsWith(line, <<"i", "n", "d", "e", "x", " ">>)
    \/ StartsWith(line, <<"-", "-", "-", " ">>)
    \/ StartsWith(line, <<"+", "+", "+", " ">>)

RECURSIVE MarkdownLoop(_, _)
\* The loop over the lines of the diff.
MarkdownLoop(st, lines) ==
    IF lines = <<>> THEN st
    ELSE LET line == Head(lines)
             next == IF StartsWith(line, DiffGitPrefix)
                     THEN [result |-> processFileContent(st.result, st.currentFile,
                                                         st.fileContent),
                           currentFile |-> IF MatchDestination(line) # <<>>
                                           THEN MatchDestination(line)
                                           ELSE UnknownFile,
                           fileContent |-> <<>>]
                     ELSE IF IsMetadata(line) THEN st
                     ELSE IF st.currentFile # <<>>
                     THEN [st EXCEPT !.fileContent = Append(@, line)]
                     ELSE st
         IN  MarkdownLoop(next, Tail(lines))

formatDiffAsMarkdown(d) ==
    LET st == MarkdownLoop([result |-> <<>>, currentFile |-> <<>>,
                            fileContent |-> <<>>], Split(d))
        lines == processFileContent(st.result, st.currentFile, st.fileContent)
    IN  IF lines = <<>>
        THEN FenceOpen \o <<NL>> \o d \o <<NL>> \o FenceClose
        ELSE JoinNL(lines)

InitMarkdown ==
    /\ pc = "start"
    /\ op = "none"
    /\ DiffIdle
    /\ NativeIdle
    /\ FilterIdle
    /\ diffText \in MdInputs
    /\ markdown = <<>>
    /\ PromptIdle
    /\ GitIdle
    /\ ReviewIdle

FormatDiffAsMarkdown ==
    /\ pc = "start"
    /\ op = "none"
    /\ markdown' = formatDiffAsMarkdown(diffText)
    /\ pc' = "done"
    /\ op' = "markdown"
    /\ UNCHANGED <<diffVars, nativeVars, filterVars, diffText, promptVars,
                   gitVars, reviewVars>>

NextMarkdown == FormatDiffAsMarkdown

SpecMarkdown == InitMarkdown /\ [][NextMarkdown]_vars

\* ------------------------------------------------ claims about the filter
\* The places of a setting where a token starts: a character that is no comma,
\* semicolon or white space and follows one, or starts the setting.
TokenStarts(s) ==
    {i \in 1..Len(s) :
        /\ s[i] \notin {",", ";", " ", NL}
        /\ (i = 1 \/ s[i - 1] \in {",", ";", " ", NL})}

\* The token that starts at place i.
TokenAt(s, i) ==
    LET j == CHOOSE e \in i..Len(s) :
                 /\ \A k \in i..e : s[k] \notin {",", ";", " ", NL}
                 /\ (e = Len(s) \/ s[e + 1] \in {",", ";", " ", NL})
    IN  SubSeq(s, i, j)

\* The tokens of a setting, in the order they are written.
TokensOf(s) ==
    [k \in 1..Cardinality(TokenStarts(s)) |->
        TokenAt(s, CHOOSE i \in TokenStarts(s) :
                       Cardinality({x \in TokenStarts(s) : x < i}) = k - 1)]

PassThrough(token) == Includes(token, <<"*", "*">>) \/ Includes(token, <<"/">>)

\* A token with a leading '*' and then a leading '.' removed.
BareExtension(token) ==
    LET t == IF token # <<>> /\ Head(token) = "*" THEN Tail(token) ELSE token
    IN  IF t # <<>> /\ Head(t) = "." THEN Tail(t) ELSE t

\* C22 as stated: the patterns are, token by token in the order written, the
\* token itself for a token containing '**' or '/', and otherwise '*.ext' and
\* '**/*.ext' where ext is the token without its leading '*' and/or '.'.
C22_PatternsFromBareExtension ==
    (op = "parse" /\ pc = "done") =>
        pathspecs = Flatten([k \in 1..Len(TokensOf(fileExtensions)) |->
            LET token == TokensOf(fileExtensions)[k]
            IN  IF PassThrough(token) THEN <<token>>
                ELSE << <<"*", ".">> \o BareExtension(token),
                        <<"*", "*", "/", "*", ".">> \o BareExtension(token) >>])

\* C22 as amended: a token containing neither '**' nor '/' gives a base
\* pattern and '**/' followed by the base pattern, where the base pattern is
\* the token itself when it starts with '*', '*' followed by the token when it
\* starts with '.', and '*.' followed by the token otherwise; a token
\* containing '**' or '/' is given once, unchanged; the patterns come token by
\* token in the order written, whichever of comma, semicolon and white space
\* separates the tokens.
C22_PatternsPerToken ==
    (op = "parse" /\ pc = "done") =>
        pathspecs = Flatten([k \in 1..Len(TokensOf(fileExtensions)) |->
            LET token == TokensOf(fileExtensions)[k]
                base == IF Head(token) = "*" THEN token
                        ELSE IF Head(token) = "." THEN <<"*">> \o token
                        ELSE <<"*", ".">> \o token
            IN  IF PassThrough(token) THEN <<token>>
                ELSE <<base, <<"*", "*", "/">> \o base>>])

C22_Witness ==
    /\ op = "parse"
    /\ pc = "done"
    /\ Includes(fileExtensions, <<";">>)
    /\ Len(TokensOf(fileExtensions)) = 2
    /\ PassThrough(TokensOf(fileExtensions)[2])
    /\ pathspecs = << <<"*", ".", "c", "s">>, <<"*", "*", "/", "*", ".", "c", "s">>,
                      TokensOf(fileExtensions)[2] >>

\* C23: a filter setting that yields no pattern (empty, or made of white space
\* and separators only) is a no-op: the extension filter keeps every change.
C23_BlankFilterKeepsAll ==
    (/\ op = "filter"
     /\ pc = "done"
     /\ \A k \in 1..Len(fileExtensions) : fileExtensions[k] \in {",", ";", " ", NL})
        => filteredChanges = changes

RECURSIVE GlobMatch(_, _)
\* The path matches the pattern as a glob: '**/' stands for any number of
\* directories, '*' for any characters of one path segment.
GlobMatch(path, pattern) ==
    IF pattern = <<>> THEN path = <<>>
    ELSE IF StartsWith(pattern, <<"*", "*", "/">>)
    THEN \/ GlobMatch(path, SubSeq(pattern, 4, Len(pattern)))
         \/ \E k \in 1..Len(path) :
               /\ path[k] = "/"
               /\ GlobMatch(SubSeq(path, k + 1, Len(path)),
                            SubSeq(pattern, 4, Len(pattern)))
    ELSE IF Head(pattern) = "*"
    THEN \E n \in 0..Len(path) :
            /\ \A k \in 1..n : path[k] # "/"
            /\ GlobMatch(SubSeq(path, n + 1, Len(path)), Tail(pattern))
    ELSE /\ path # <<>>
         /\ Head(path) = Head(pattern)
         /\ GlobMatch(Tail(path), Tail(pattern))

\* A simple token of one of the forms 'ext', '.ext' and '*.ext'.
PlainExtension(token) ==
    /\ ~PassThrough(token)
    /\ Head(token) = "*" => (Len(token) >= 2 /\ token[2] = ".")

\* C24: with a filter of simple tokens and pass-through patterns, a changed
\* file is kept exactly when its relative path ends with '.ext' for a simple
\* token, at any depth, or matches a pass-through pattern as a glob.
C24_KeepsMatchingFiles ==
    (/\ op = "filter"
     /\ pc = "done"
     /\ TokensOf(fileExtensions) # <<>>
     /\ \A i \in 1..Len(TokensOf(fileExtensions)) :
           LET token == TokensOf(fileExtensions)[i]
           IN  PassThrough(token) \/ PlainExtension(token))
        => \A k \in 1..Len(changes) :
              (\E j \in 1..Len(filteredChanges) : filteredChanges[j] = changes[k])
              <=> \E i \in 1..Len(TokensOf(fileExtensions)) :
                     LET token == TokensOf(fileExtensions)[i]
                     IN  IF PassThrough(token)
                         THEN GlobMatch(changes[k].path, token)
                         ELSE EndsWith(changes[k].path,
                                       <<".">> \o BareExtension(token))

\* ------------------------------------- claims about formatDiffAsMarkdown
\* The k-th smallest number of a set of numbers.
NthOf(S, k) == CHOOSE i \in S : Cardinality({x \in S : x < i}) = k - 1

\* The places of the 'diff --git' file headers among the lines.
HeadersOf(lines) == {i \in 1..Len(lines) : StartsWith(lines[i], DiffGitPrefix)}

\* The lines of the file whose header is line i: those up to the next file
\* header, without the lines that start with 'index ', '--- ' or '+++ '.
FileLines(lines, i) ==
    LET later == {j \in HeadersOf(lines) : j > i}
        last == IF later = {} THEN Len(lines) ELSE NthOf(later, 1) - 1
    IN  SelectSeq(SubSeq(lines, i + 1, last), LAMBDA l :
            /\ ~StartsWith(l, <<"i", "n", "d", "e", "x", " ">>)
            /\ ~StartsWith(l, <<"-", "-", "-", " ">>)
            /\ ~StartsWith(l, <<"+", "+", "+", " ">>))

\* The file headers that are followed by a line of their file.
SectionHeaders(lines) == {i \in HeadersOf(lines) : FileLines(lines, i) # <<>>}

\* The ways to read a header as 'diff --git a/X b/Y': the texts Y.
Destinations(header) ==
    {SubSeq(header, q + 3, Len(header)) :
        q \in {x \in (Len(DiffGitAPrefix) + 2)..(Len(header) - 3) :
                  /\ StartsWith(header, DiffGitAPrefix)
                  /\ SubSeq(header, x, x + 2) = <<" ", "b", "/">>}}

\* The place in the output where the k-th section starts.
RECURSIVE SectionStart(_, _)
SectionStart(lines, k) ==
    IF k = 1 THEN 1
    ELSE SectionStart(lines, k - 1)
         + Len(FileLines(lines, NthOf(SectionHeaders(lines), k - 1))) + 5

\* C25: the text formatDiffAsMarkdown returns is made of one section for each
\* file header that is followed by at least one line that is no metadata, in
\* the order of the input: the title '## Y' of a header 'diff --git a/X b/Y',
\* an empty line, the opening fence, the lines of the file without those that
\* start with 'index ', '--- ' or '+++ ', the closing fence and an empty line;
\* without any section it is the whole input inside one fenced block.
C25_SectionsPerHeader ==
    (op = "markdown" /\ pc = "done") =>
        LET lines == Split(diffText)
            out == Split(markdown)
            m == Cardinality(SectionHeaders(lines))
        IN  IF m = 0
            THEN markdown = FenceOpen \o <<NL>> \o diffText \o <<NL>> \o FenceClose
            ELSE /\ Len(out) = SectionStart(lines, m + 1) - 1
                 /\ \A k \in 1..m :
                       LET h == NthOf(SectionHeaders(lines), k)
                           s == SectionStart(lines, k)
                           n == Len(FileLines(lines, h))
                       IN  /\ Destinations(lines[h]) # {} =>
                                 \E y \in Destinations(lines[h]) :
                                     out[s] = <<"#", "#", " ">> \o y
                           /\ out[s + 1] = <<>>
                           /\ out[s + 2] = FenceOpen
                           /\ SubSeq(out, s + 3, s + 2 + n) = FileLines(lines, h)
                           /\ out[s + 3 + n] = FenceClose
                           /\ out[s + 4 + n] = <<>>

C25_Witness ==
    /\ op = "markdown"
    /\ pc = "done"
    /\ Cardinality(HeadersOf(Split(diffText))) = 2
    /\ Cardinality(SectionHeaders(Split(diffText))) = 1
    /\ IsMetadata(Split(diffText)[2])
    /\ Split(markdown) = << <<"#", "#", " ", "y">>, <<>>, FenceOpen, <<" ", "c">>,
                            FenceClose, <<>> >>

\* The hunk lines of the file whose header is line i: from its first hunk
\* header up to the next file header, the lines that start with '@@', ' ',
\* '+' or '-'.
HunkLinesOf(lines, i) ==
    LET later == {j \in HeadersOf(lines) : j > i}
        last == IF later = {} THEN Len(lines) ELSE NthOf(later, 1) - 1
        ats == {j \in (i + 1)..last : StartsWith(lines[j], <<"@", "@">>)}
    IN  IF ats = {} THEN <<>>
        ELSE SelectSeq(SubSeq(lines, NthOf(ats, 1), last), LAMBDA l :
                 l # <<>> /\ Head(l) \in {"@", " ", "+", "-"})

RECURSIVE IsSubsequence(_, _)
\* The elements of a are found in b, in the order of a.
IsSubsequence(a, b) ==
    IF a = <<>> THEN TRUE
    ELSE IF b = <<>> THEN FALSE
    ELSE IF Head(a) = Head(b) THEN IsSubsequence(Tail(a), Tail(b))
    ELSE IsSubsequence(a, Tail(b))

\* C26: formatDiffAsMarkdown loses no diff content: every hunk header and every
\* hunk line of a file, whatever its text, is in the fenced block of that file,
\* in the order of the input.
C26_HunkLinesKept ==
    (op = "markdown" /\ pc = "done" /\ SectionHeaders(Split(diffText)) # {}) =>
        LET lines == Split(diffText)
            out == Split(markdown)
        IN  \A h \in HeadersOf(lines) :
                LET k == Cardinality({x \in SectionHeaders(lines) : x <= h})
                    s == SectionStart(lines, k)
                    block == IF h \in SectionHeaders(lines)
                             THEN SubSeq(out, s + 3,
                                         s + 2 + Len(FileLines(lines, h)))
                             ELSE <<>>
                IN  IsSubsequence(HunkLinesOf(lines, h), block)

\* ------------------------------------------------- FavoritePromptsService
\* Number of calls of the service in one run.
MaxCalls == 3

\* The setting diffLens.maxFavoritePrompts.
MaxPrompts == 2

\* The names and the prompt texts the user enters.
PromptNames == {<<"a">>, <<" ", "a">>, <<"b">>, <<" ">>}

PromptTexts == {<<"p">>, <<" ">>}

\* The prompts of an import file: each with its name ('' when it has none),
\* a system prompt and a review perspective.
ImportNames == {<<>>, <<"a">>, <<"b">>}

\* JSON.parse(jsonData): no JSON at all, JSON without a prompts array, or one
\* or two prompts.
ImportFiles ==
    {[json |-> FALSE, array |-> FALSE, prompts |-> <<>>],
     [json |-> TRUE, array |-> FALSE, prompts |-> <<>>]}
    \cup {[json |-> TRUE, array |-> TRUE, prompts |-> <<n>>] : n \in ImportNames}
    \cup {[json |-> TRUE, array |-> TRUE, prompts |-> <<nm[1], nm[2]>>] :
             nm \in ImportNames \X ImportNames}

\* new Date() of the call that starts now: each call has its own time.
Now == Len(calls) + 1

\* The place of p in a list sorted by updatedAt, latest first: behind the
\* prompts that are not older (the sort is stable).
InsertByUpdatedAt(sorted, p) ==
    LET k == Cardinality({i \in 1..Len(sorted) : sorted[i].updatedAt >= p.updatedAt})
    IN  SubSeq(sorted, 1, k) \o <<p>> \o SubSeq(sorted, k + 1, Len(sorted))

RECURSIVE SortByUpdatedAt(_)
SortByUpdatedAt(ps) ==
    IF ps = <<>> THEN <<>>
    ELSE InsertByUpdatedAt(SortByUpdatedAt(SubSeq(ps, 1, Len(ps) - 1)), ps[Len(ps)])

\* getFavoritePrompts(): the stored prompts, latest update first.  A prompt is
\* modelled by its id, name and updatedAt; its other fields play no part in
\* what the service decides.
getFavoritePrompts == SortByUpdatedAt(favoritePrompts)

\* The calls whose config.update has not completed.
Pending == {c \in 1..Len(calls) : calls[c].status = "updating"}

\* A call that returns success: false before it changes anything.
Rejected(operation, name) ==
    [op |-> operation, name |-> name, status |-> "failed", value |-> <<>>,
     pending |-> Pending]

\* A call that has reached its `await config.update(..., value, Global)`.
Updating(operation, name, value) ==
    [op |-> operation, name |-> name, status |-> "updating", value |-> value,
     pending |-> Pending]

InitPrompts ==
    /\ pc = "start"
    /\ op = "none"
    /\ DiffIdle
    /\ NativeIdle
    /\ FilterIdle
    /\ MarkdownIdle
    /\ favoritePrompts = <<>>
    /\ calls = <<>>
    /\ GitIdle
    /\ ReviewIdle

\* saveFavoritePrompt(name, systemPrompt, reviewPerspective) up to its await
SaveFavoritePrompt ==
    /\ Len(calls) < MaxCalls
    /\ \E name \in PromptNames, systemPrompt \in PromptTexts,
          reviewPerspective \in PromptTexts :
          LET currentPrompts == getFavoritePrompts
              newPrompt == [id |-> <<Now, 1>>, name |-> Trim(name),
                            updatedAt |-> Now]
          IN  calls' = Append(calls,
                  IF \E k \in 1..Len(currentPrompts) : currentPrompts[k].name = name
                  THEN Rejected("save", name)
                  ELSE IF Len(currentPrompts) >= MaxPrompts
                  THEN Rejected("save", name)
                  ELSE IF \/ Trim(name) = <<>>
                          \/ Trim(systemPrompt) = <<>>
                          \/ Trim(reviewPerspective) = <<>>
                  THEN Rejected("save", name)
                  ELSE Updating("save", name, Append(currentPrompts, newPrompt)))
    /\ UNCHANGED <<pc, op, diffVars, nativeVars, filterVars, markdownVars,
                   favoritePrompts, gitVars, reviewVars>>

\* updateFavoritePrompt(id, name, systemPrompt, reviewPerspective) up to its
\* await
UpdateFavoritePrompt ==
    /\ Len(calls) < MaxCalls
    /\ \E id \in {favoritePrompts[k].id : k \in 1..Len(favoritePrompts)}
                 \cup {<<0, 0>>},
          name \in PromptNames, systemPrompt \in PromptTexts,
          reviewPerspective \in PromptTexts :
          LET currentPrompts == getFavoritePrompts
              found == {k \in 1..Len(currentPrompts) : currentPrompts[k].id = id}
          IN  calls' = Append(calls,
                  IF found = {}
                  THEN Rejected("update", name)
                  ELSE IF \E k \in 1..Len(currentPrompts) :
                             currentPrompts[k].id # id /\ currentPrompts[k].name = name
                  THEN Rejected("update", name)
                  ELSE IF \/ Trim(name) = <<>>
                          \/ Trim(systemPrompt) = <<>>
                          \/ Trim(reviewPerspective) = <<>>
                  THEN Rejected("update", name)
                  ELSE LET promptIndex == CHOOSE k \in found : \A x \in found : k <= x
                       IN  Updating("update", name,
                               [currentPrompts EXCEPT ![promptIndex] =
                                   [@ EXCEPT !.name = Trim(name),
                                             !.updatedAt = Now]]))
    /\ UNCHANGED <<pc, op, diffVars, nativeVars, filterVars, markdownVars,
                   favoritePrompts, gitVars, reviewVars>>

\* deleteFavoritePrompt(id) up to its await
DeleteFavoritePrompt ==
    /\ Len(calls) < MaxCalls
    /\ \E id \in {favoritePrompts[k].id : k \in 1..Len(favoritePrompts)}
                 \cup {<<0, 0>>} :
          LET currentPrompts == getFavoritePrompts
              filteredPrompts == SelectSeq(currentPrompts, LAMBDA p : p.id # id)
          IN  calls' = Append(calls,
                  IF Len(filteredPrompts) = Len(currentPrompts)
                  THEN Rejected("delete", <<>>)
                  ELSE Updating("delete", <<>>, filteredPrompts))
    /\ UNCHANGED <<pc, op, diffVars, nativeVars, filterVars, markdownVars,
                   favoritePrompts, gitVars, reviewVars>>

RECURSIVE ValidPrompts(_, _, _, _)
\* The loop of importFavoritePrompts over data.prompts: the prompts taken
\* (k: the number of prompts of the file read so far).
ValidPrompts(prompts, currentPrompts, validPrompts, k) ==
    IF prompts = <<>> THEN validPrompts
    ELSE LET name == Head(prompts)
             skip == \/ name = <<>>
                     \/ \E i \in 1..Len(currentPrompts) : currentPrompts[i].name = name
                     \/ Len(currentPrompts) + Len(validPrompts) >= MaxPrompts
         IN  ValidPrompts(Tail(prompts), currentPrompts,
                 IF skip THEN validPrompts
                 ELSE Append(validPrompts, [id |-> <<Now, k + 1>>, name |-> name,
                                            updatedAt |-> Now]),
                 k + 1)

\* importFavoritePrompts(jsonData) up to its await; without a prompt to add
\* it returns success without an update.
ImportFavoritePrompts ==
    /\ Len(calls) < MaxCalls
    /\ \E data \in ImportFiles :
          LET currentPrompts == getFavoritePrompts
              validPrompts == ValidPrompts(data.prompts, currentPrompts, <<>>, 0)
          IN  calls' = Append(calls,
                  IF ~data.json \/ ~data.array
                  THEN Rejected("import", <<>>)
                  ELSE IF validPrompts # <<>>
                  THEN Updating("import", <<>>, currentPrompts \o validPrompts)
                  ELSE [Rejected("import", <<>>) EXCEPT !.status = "succeeded"])
    /\ UNCHANGED <<pc, op, diffVars, nativeVars, filterVars, markdownVars,
                   favoritePrompts, gitVars, reviewVars>>

\* config.update completes for one of the calls that wait for it: the setting
\* takes the value the call wrote and the call returns success: true, or the
\* update is rejected and the call returns success: false.  The calls are not
\* ordered by the service, so any waiting call may be the next to complete.
CompleteUpdate ==
    /\ \E c \in Pending, ok \in BOOLEAN :
          IF ok
          THEN /\ favoritePrompts' = calls[c].value
               /\ calls' = [calls EXCEPT ![c].status = "succeeded"]
          ELSE /\ favoritePrompts' = favoritePrompts
               /\ calls' = [calls EXCEPT ![c].status = "failed"]
    /\ UNCHANGED <<pc, op, diffVars, nativeVars, filterVars, markdownVars,
                   gitVars, reviewVars>>

NextPrompts ==
    \/ SaveFavoritePrompt
    \/ UpdateFavoritePrompt
    \/ DeleteFavoritePrompt
    \/ ImportFavoritePrompts
    \/ CompleteUpdate

SpecPrompts == InitPrompts /\ [][NextPrompts]_vars

\* ------------------------------------- claims about the favourite prompts
\* C27: no two stored prompts have the same name, whatever calls of
\* saveFavoritePrompt, updateFavoritePrompt, deleteFavoritePrompt and
\* importFavoritePrompts were made from the empty store.
\* It is stated for the runs in which every call started after the calls
\* before it had completed.
C27_NamesAreUnique ==
    (\A c \in 1..Len(calls) : calls[c].pending = {}) =>
        \A i, j \in 1..Len(favoritePrompts) :
            i # j => favoritePrompts[i].name # favoritePrompts[j].name

\* C28: two calls of saveFavoritePrompt with different valid names, the second
\* started before the configuration update of the first completed, that both
\* report success leave both prompts in the stored list (no other call having
\* changed the store).
C28_ConcurrentSavesBothStored ==
    \A i, j \in 1..Len(calls) :
        (/\ i < j
         /\ calls[i].op = "save" /\ calls[j].op = "save"
         /\ calls[i].status = "succeeded" /\ calls[j].status = "succeeded"
         /\ Trim(calls[i].name) # Trim(calls[j].name)
         /\ i \in calls[j].pending
         /\ \A k \in 1..Len(calls) : k \notin {i, j} => calls[k].status = "failed")
            => \A c \in {i, j} :
                   \E k \in 1..Len(favoritePrompts) :
                       favoritePrompts[k].name = Trim(calls[c].name)

\* ---------------------------------------------------------------- getGitAPI
GIT_API_REFRESH_INTERVAL == 5000

\* Number of calls of getGitAPI in one run, and of steps of the clock.
MaxGitCalls == 2

MaxTicks == 2

\* The clock moves in steps of half the refresh interval.
TickMs == GIT_API_REFRESH_INTERVAL \div 2

\* Date.now() when the extension starts is far from 0, the first value of
\* gitAPILastRefresh.
InitGit ==
    /\ pc = "start"
    /\ op = "none"
    /\ DiffIdle
    /\ NativeIdle
    /\ FilterIdle
    /\ MarkdownIdle
    /\ PromptIdle
    /\ cachedGitAPI = 0
    /\ gitAPILastRefresh = 0
    /\ clock = GIT_API_REFRESH_INTERVAL
    /\ isActive \in BOOLEAN
    /\ queries = 0
    /\ gitCalls = <<>>
    /\ mustRequery = FALSE
    /\ ReviewIdle

\* gitCalls with the call at place k set (a new call when k is one past the
\* end).
WithCall(k, call) ==
    IF k = Len(gitCalls) + 1 THEN Append(gitCalls, call)
    ELSE [gitCalls EXCEPT ![k] = call]

\* A path of getGitAPI that returns undefined: the cache is cleared.
ReturnUndefined(k, call) ==
    /\ cachedGitAPI' = 0
    /\ gitAPILastRefresh' = gitAPILastRefresh
    /\ queries' = queries
    /\ mustRequery' = TRUE
    /\ gitCalls' = WithCall(k, [call EXCEPT !.pc = "returned", !.answer = 0])

\* The end of getGitAPI: the handle is cached with the time read when the
\* call started, and returned.
CacheAndReturn(k, call, gitAPI, cleared) ==
    /\ cachedGitAPI' = gitAPI
    /\ gitAPILastRefresh' = call.now
    /\ mustRequery' = cleared
    /\ gitCalls' = WithCall(k, [call EXCEPT !.pc = "returned", !.gitAPI = gitAPI,
                                            !.answer = gitAPI])

\* gitExtension.exports?.getAPI(1) and what follows it: no API, a handle
\* without repositories yet (the call waits for their discovery), or a handle
\* that is cached and returned.  Every handle given out is a new one.
QueryExtension(k, call, cleared) ==
    \E api \in BOOLEAN, discovered \in BOOLEAN :
        IF ~api
        THEN ReturnUndefined(k, call)
        ELSE /\ queries' = queries + 1
             /\ IF discovered
                THEN CacheAndReturn(k, call, queries + 1, cleared)
                ELSE /\ gitCalls' = WithCall(k, [call EXCEPT !.pc = "discovering",
                                                             !.gitAPI = queries + 1])
                     /\ mustRequery' = cleared
                     /\ UNCHANGED <<cachedGitAPI, gitAPILastRefresh>>

\* getGitAPI(forceRefresh) up to its first await or its return
GetGitAPI ==
    /\ Len(gitCalls) < MaxGitCalls
    /\ \E forceRefresh \in BOOLEAN :
          LET call == [forceRefresh |-> forceRefresh, now |-> clock,
                       cached |-> cachedGitAPI, last |-> gitAPILastRefresh,
                       cleared |-> mustRequery, pc |-> "started", gitAPI |-> 0,
                       answer |-> 0, fromCache |-> FALSE]
              k == Len(gitCalls) + 1
          IN  IF /\ ~forceRefresh
                 /\ cachedGitAPI # 0
                 /\ clock - gitAPILastRefresh < GIT_API_REFRESH_INTERVAL
              THEN /\ gitCalls' = Append(gitCalls,
                          [call EXCEPT !.pc = "returned", !.answer = cachedGitAPI,
                                       !.fromCache = TRUE])
                   /\ mustRequery' = FALSE
                   /\ UNCHANGED <<cachedGitAPI, gitAPILastRefresh, queries>>
              ELSE \E found \in BOOLEAN :
                      IF ~found
                      THEN ReturnUndefined(k, call)
                      ELSE IF ~isActive
                      THEN /\ gitCalls' = Append(gitCalls,
                                  [call EXCEPT !.pc = "activating"])
                           /\ mustRequery' = FALSE
                           /\ UNCHANGED <<cachedGitAPI, gitAPILastRefresh, queries>>
                      ELSE QueryExtension(k, call, FALSE)
    /\ UNCHANGED <<pc, op, diffVars, nativeVars, filterVars, markdownVars,
                   promptVars, clock, isActive, reviewVars>>

\* await gitExtension.activate() settles: the extension is active and the
\* call waits a second, or the activation fails and the catch clears the cache
ActivateDone ==
    /\ \E k \in 1..Len(gitCalls), ok \in BOOLEAN :
          /\ gitCalls[k].pc = "activating"
          /\ IF ok
             THEN /\ isActive' = TRUE
                  /\ gitCalls' = [gitCalls EXCEPT ![k].pc = "scanning"]
                  /\ UNCHANGED <<cachedGitAPI, gitAPILastRefresh, queries,
                                 mustRequery>>
             ELSE /\ isActive' = isActive
                  /\ ReturnUndefined(k, gitCalls[k])
    /\ UNCHANGED <<pc, op, diffVars, nativeVars, filterVars, markdownVars,
                   promptVars, clock, reviewVars>>

\* The wait of 1000 ms after the activation is over.
ScanDone ==
    /\ \E k \in 1..Len(gitCalls) :
          /\ gitCalls[k].pc = "scanning"
          /\ QueryExtension(k, gitCalls[k], mustRequery)
    /\ UNCHANGED <<pc, op, diffVars, nativeVars, filterVars, markdownVars,
                   promptVars, clock, isActive, reviewVars>>

\* The wait of 1500 ms for the discovery of repositories is over.
DiscoverDone ==
    /\ \E k \in 1..Len(gitCalls) :
          /\ gitCalls[k].pc = "discovering"
          /\ CacheAndReturn(k, gitCalls[k], gitCalls[k].gitAPI, mustRequery)
    /\ UNCHANGED <<pc, op, diffVars, nativeVars, filterVars, markdownVars,
                   promptVars, clock, isActive, queries, reviewVars>>

\* refreshGitAPI()
RefreshGitAPI ==
    /\ cachedGitAPI' = 0
    /\ gitAPILastRefresh' = 0
    /\ mustRequery' = TRUE
    /\ UNCHANGED <<pc, op, diffVars, nativeVars, filterVars, markdownVars,
                   promptVars, clock, isActive, queries, gitCalls, reviewVars>>

\* Time passes.
Tick ==
    /\ clock < GIT_API_REFRESH_INTERVAL + MaxTicks * TickMs
    /\ clock' = clock + TickMs
    /\ UNCHANGED <<pc, op, diffVars, nativeVars, filterVars, markdownVars,
                   promptVars, cachedGitAPI, gitAPILastRefresh, isActive, queries,
                   gitCalls, mustRequery, reviewVars>>

NextGit ==
    \/ RefreshGitAPI
    \/ GetGitAPI
    \/ ActivateDone
    \/ ScanDone
    \/ DiscoverDone
    \/ Tick

SpecGit == InitGit /\ [][NextGit]_vars

\* ------------------------------------------------- claims about getGitAPI
\* C29: a call of getGitAPI answers from the cache only when it was not
\* forced, a handle was cached and fewer than 5000 ms had passed; a forced
\* call, and the first call started after refreshGitAPI() or after a lookup
\* that failed, asks the Git extension again.
C29_CacheOnlyWhenFresh ==
    \A k \in 1..Len(gitCalls) :
        /\ gitCalls[k].fromCache =>
              /\ ~gitCalls[k].forceRefresh
              /\ gitCalls[k].cached # 0
              /\ gitCalls[k].answer = gitCalls[k].cached
              /\ gitCalls[k].now - gitCalls[k].last < GIT_API_REFRESH_INTERVAL
        /\ (gitCalls[k].forceRefresh \/ gitCalls[k].cleared) =>
              ~gitCalls[k].fromCache

\* ------------------------------------------------------- runCodeReview
\* The run of the command: runCodeReview of the extension entry point,
\* with validateConfiguration and the provider switch of reviewWithLLM.
\* events is the list of calls runCodeReview has made and what came back.

Providers == {"bedrock", "vscode-lm", "other"}

Texts == {"", "p"}

\* What getConfiguration can read from the settings.
SettingsSpace ==
    [systemPrompt : Texts, reviewPerspective : Texts, llmProvider : Providers,
     awsAccessKey : Texts, awsSecretKey : Texts, vscodeLmFamily : Texts]

\* The argument customPrompts: <<>> stands for undefined.
CustomPromptsSpace ==
    {<<>>} \cup [systemPrompt : Texts, reviewPerspective : Texts]

Call(name) == [name |-> name, kind |-> "call", value |-> ""]

Return(name, value) == [name |-> name, kind |-> "return", value |-> value]

Throw(name) == [name |-> name, kind |-> "throw", value |-> ""]

ShowErrorMessage(message) ==
    [name |-> "showErrorMessage", kind |-> "call", value |-> message]

\* The common checks only.
validateConfigurationCommonOnly(c) ==
    (IF c.systemPrompt = "" THEN <<"System Prompt is required">> ELSE <<>>)
    \o (IF c.reviewPerspective = ""
        THEN <<"Review Perspective is required">> ELSE <<>>)

validateConfiguration(c) ==
    (IF c.systemPrompt = "" THEN <<"System Prompt is required">> ELSE <<>>)
    \o (IF c.reviewPerspective = ""
        THEN <<"Review Perspective is required">> ELSE <<>>)
    \o (IF c.llmProvider = "bedrock"
        THEN (IF c.awsAccessKey = ""
              THEN <<"AWS Access Key is required for Bedrock">> ELSE <<>>)
             \o (IF c.awsSecretKey = ""
                 THEN <<"AWS Secret Key is required for Bedrock">> ELSE <<>>)
        ELSE IF c.llmProvider = "vscode-lm"
        THEN (IF c.vscodeLmFamily = ""
              THEN <<"VS Code LM Family is required">> ELSE <<>>)
        ELSE <<>>)

\* getConfiguration() followed by the override with customPrompts.
LoadConfiguration(s, custom) ==
    IF custom # <<>>
    THEN [s EXCEPT !.systemPrompt = custom.systemPrompt,
                   !.reviewPerspective = custom.reviewPerspective]
    ELSE s

InitReview ==
    /\ pc = "start"
    /\ op = "none"
    /\ DiffIdle
    /\ NativeIdle
    /\ FilterIdle
    /\ MarkdownIdle
    /\ PromptIdle
    /\ GitIdle
    /\ workspaceFolders \in 0..1
    /\ settings \in SettingsSpace
    /\ customPrompts \in CustomPromptsSpace
    /\ config = <<>>
    /\ events = <<>>

\* runCodeReview up to its first await.
RunCodeReview ==
    /\ pc = "start"
    /\ op' = "review"
    /\ IF workspaceFolders = 0
       THEN /\ events' = <<ShowErrorMessage("No workspace folder found")>>
            /\ pc' = "done"
       ELSE /\ events' = <<Call("isGitRepository")>>
            /\ pc' = "isRepo"
    /\ UNCHANGED <<diffVars, nativeVars, filterVars, markdownVars, promptVars,
                   gitVars, workspaceFolders, settings, customPrompts, config>>

\* What runCodeReview does once the workspace is known to be a repository,
\* up to the await of generateNativeGitDiff; log is events so far.
AfterRepositoryCheck(log) ==
    \E c \in {LoadConfiguration(settings, customPrompts)} :
        /\ config' = c
        /\ IF Len(validateConfiguration(c)) > 0
           THEN /\ events' = Append(log, ShowErrorMessage("Configuration errors"))
                /\ pc' = "done"
           ELSE /\ events' = Append(log, Call("generateNativeGitDiff"))
                /\ pc' = "diff"

\* isGitRepository(workspacePath) has answered; it never throws.
IsRepoDone ==
    /\ op = "review"
    /\ pc = "isRepo"
    /\ \E isRepo \in BOOLEAN :
          \E log \in {Append(events, Return("isGitRepository",
                                       IF isRepo THEN "true" ELSE "false"))} :
              IF isRepo
              THEN AfterRepositoryCheck(log)
              ELSE /\ events' = Append(log, Call("isGitRepository(force)"))
                   /\ pc' = "isRepoForce"
                   /\ UNCHANGED config
    /\ UNCHANGED <<op, diffVars, nativeVars, filterVars, markdownVars,
                   promptVars, gitVars, workspaceFolders, settings,
                   customPrompts>>

\* isGitRepository(workspacePath, true) has answered.
IsRepoForceDone ==
    /\ op = "review"
    /\ pc = "isRepoForce"
    /\ \E isRepo \in BOOLEAN :
          \E log \in {Append(events, Return("isGitRepository(force)",
                                       IF isRepo THEN "true" ELSE "false"))} :
              IF isRepo
              THEN AfterRepositoryCheck(log)
              ELSE /\ events' = Append(log,
                          ShowErrorMessage("Current workspace is not a git repository."))
                   /\ pc' = "done"
                   /\ UNCHANGED config
    /\ UNCHANGED <<op, diffVars, nativeVars, filterVars, markdownVars,
                   promptVars, gitVars, workspaceFolders, settings,
                   customPrompts>>

\* The catch block of runCodeReview; log ends with the call that threw.
CatchError(log) ==
    /\ events' = Append(log, ShowErrorMessage("Error during code review"))
    /\ pc' = "done"

\* generateNativeGitDiff has returned the diff or thrown.
DiffDone ==
    /\ op = "review"
    /\ pc = "diff"
    /\ \E ok \in BOOLEAN :
          IF ok
          THEN /\ events' = events \o <<Return("generateNativeGitDiff", "diff"),
                                        Call("reviewWithLLM")>>
               /\ pc' = "review"
          ELSE CatchError(Append(events, Throw("generateNativeGitDiff")))
    /\ UNCHANGED <<op, diffVars, nativeVars, filterVars, markdownVars,
                   promptVars, gitVars, workspaceFolders, settings,
                   customPrompts, config>>

\* reviewWithLLM has returned a result or thrown; it throws for a provider
\* that is neither bedrock nor vscode-lm.
ReviewDone ==
    /\ op = "review"
    /\ pc = "review"
    /\ \E ok \in (IF config.llmProvider \in {"bedrock", "vscode-lm"}
                  THEN BOOLEAN ELSE {FALSE}) :
          IF ok
          THEN /\ events' = events \o <<Return("reviewWithLLM", "review"),
                                        Call("showReviewResults")>>
               /\ pc' = "show"
          ELSE CatchError(Append(events, Throw("reviewWithLLM")))
    /\ UNCHANGED <<op, diffVars, nativeVars, filterVars, markdownVars,
                   promptVars, gitVars, workspaceFolders, settings,
                   customPrompts, config>>

\* showReviewResults has returned or thrown.
ShowDone ==
    /\ op = "review"
    /\ pc = "show"
    /\ \E ok \in BOOLEAN :
          IF ok
          THEN /\ events' = Append(events, Return("showReviewResults", ""))
               /\ pc' = "done"
          ELSE CatchError(Append(events, Throw("showReviewResults")))
    /\ UNCHANGED <<op, diffVars, nativeVars, filterVars, markdownVars,
                   promptVars, gitVars, workspaceFolders, settings,
                   customPrompts, config>>

NextReview ==
    \/ RunCodeReview
    \/ IsRepoDone
    \/ IsRepoForceDone
    \/ DiffDone
    \/ ReviewDone
    \/ ShowDone

SpecReview == InitReview /\ [][NextReview]_vars

\* ------------------------------------------------ claims about runCodeReview
Has(e) == \E i \in 1..Len(events) : events[i] = e

Before(e, i) == \E j \in 1..(i - 1) : events[j] = e

\* The configuration the run works with has everything its provider needs,
\* read off the settings and the argument.
ConfigurationValid ==
    LET systemPrompt == IF customPrompts # <<>> THEN customPrompts.systemPrompt
                        ELSE settings.systemPrompt
        reviewPerspective == IF customPrompts # <<>>
                             THEN customPrompts.reviewPerspective
                             ELSE settings.reviewPerspective
    IN  /\ systemPrompt # ""
        /\ reviewPerspective # ""
        /\ settings.llmProvider = "bedrock" =>
              settings.awsAccessKey # "" /\ settings.awsSecretKey # ""
        /\ settings.llmProvider = "vscode-lm" => settings.vscodeLmFamily # ""

\* One of the steps before the review has failed.
PreparationFailed ==
    \/ workspaceFolders = 0
    \/ Has(Return("isGitRepository(force)", "false"))
    \/ ~ConfigurationValid
    \/ Has(Throw("generateNativeGitDiff"))

EndsWithErrorMessage ==
    /\ events # <<>>
    /\ events[Len(events)].name = "showErrorMessage"

\* C30: reviewWithLLM is called only after a workspace folder was found, the
\* workspace was confirmed to be a git repository, validateConfiguration
\* found no errors and generateNativeGitDiff returned; showReviewResults is
\* called only after reviewWithLLM returned a result; and a run in which one
\* of the steps failed ends with an error message, without a review being
\* sent (when a step before the review failed) or shown (when the review
\* failed).
C30_ReviewOnlyAfterChecks ==
    op = "review" =>
        /\ \A i \in 1..Len(events) :
              events[i] = Call("reviewWithLLM") =>
                  /\ workspaceFolders > 0
                  /\ \/ Before(Return("isGitRepository", "true"), i)
                     \/ Before(Return("isGitRepository(force)", "true"), i)
                  /\ ConfigurationValid
                  /\ Before(Return("generateNativeGitDiff", "diff"), i)
        /\ \A i \in 1..Len(events) :
              events[i] = Call("showReviewResults") =>
                  Before(Return("reviewWithLLM", "review"), i)
        /\ PreparationFailed =>
              /\ ~Has(Call("reviewWithLLM"))
              /\ ~Has(Call("showReviewResults"))
        /\ Has(Throw("reviewWithLLM")) => ~Has(Call("showReviewResults"))
        /\ (pc = "done" /\ (\/ PreparationFailed
                            \/ Has(Throw("reviewWithLLM"))
                            \/ Has(Throw("showReviewResults")))) =>
              EndsWithErrorMessage

\* C30 witness: a run that found the repository only at the forced retry,
\* whose settings lack the system prompt but whose argument supplies it, and
\* that went on to send the review and to show it.
C30_Witness ==
    /\ op = "review"
    /\ pc = "done"
    /\ Has(Return("isGitRepository", "false"))
    /\ customPrompts # <<>>
    /\ settings.systemPrompt = ""
    /\ Has(Call("reviewWithLLM"))
    /\ Has(Return("showReviewResults", ""))

====
